---- MODULE Spec2Model ----
(***************************************************************************)
(* IntelliSheet: the condition filter (models/filtering.py) and the text   *)
(* command processor (models/text_commands.py) as a state machine.  One    *)
(* request is handled per script run: a handler takes its input in state   *)
(* "idle", leaves its outcome in the state, and the next run starts over   *)
(* with the same session table.                                            *)
(*                                                                         *)
(* A DataFrame is a record [obj, columns, dtypes, rows]: the identity of   *)
(* the Python object, the column names in column order, the dtype of each  *)
(* column ("number" or "object") and the rows in row order.  A row is      *)
(* [idx, cells]: idx is its pandas index label (boolean-mask selection     *)
(* keeps the labels), cells its values in column order.  A cell is Num(n), *)
(* NaN or Str(s).  Floats are modelled by the integers, which is exact for *)
(* the values float() produces from the digit strings of the command       *)
(* alphabet.                                                               *)
(***************************************************************************)
EXTENDS Integers, Sequences, FiniteSets, TLC

VARIABLES
    df,            \* the session table (app.py: df = pd.read_excel(...))
    pc,            \* "idle": waiting for a request; "done": a handler returned
    conditions,    \* argument of the last SmartFilter.apply_filter call
    logic,         \* argument of the last SmartFilter.apply_filter call
    filtered,      \* outcome of the last SmartFilter.apply_filter call
    command_text,  \* argument of the last TextCommandProcessor.process_command call
    result,        \* outcome of the last TextCommandProcessor.process_command call
    highlight_threshold,  \* argument of the last highlight call
    second,        \* outcome of the highlight applied again, to the table it returned
    report,        \* the outlier counts of the insight report and of the error report
    save_outcome,  \* what sf.save_to_excel returned in the sidebar filter, None before
    audio_available, \* VoiceCommandProcessor.audio_available: a recording device is there
    listening,     \* st.session_state.listening
    command_result,  \* st.session_state.command_result
    heard,         \* the texts listen_and_recognize returned, one per invocation
    files,         \* the files of the working directory: path -> content
    shown,         \* what the handler wrote to the page, in order
    session_df,    \* per session: the table the session uploaded
    chart_pc,      \* per session: position in the "Create Bar Chart" handler
    chart_col,     \* per session: the column selected for the bar chart
    returned_path, \* per session: what plot_bar_chart returned
    displayed      \* per session: the content of the image st.image displayed

\* The variables of one handler call.
callVars == <<conditions, logic, filtered, command_text, result, highlight_threshold,
              second, report, save_outcome, shown>>

\* What outlives a script run, the session table apart.
worldVars == <<audio_available, listening, command_result, heard, files, session_df,
               chart_pc, chart_col, returned_path, displayed>>

vars == <<df, pc, callVars, worldVars>>

(***************************************************************************)
(* Bounds of the model.                                                    *)
(***************************************************************************)
MaxRows == 2          \* rows of a table the condition filter is applied to
MaxConds == 2         \* conditions of a condition list
MaxCommandRows == 1   \* rows of a table a text command is run against
MaxWords == 2         \* words of a generated command text
MaxHighlightRows == 2 \* rows of a table a highlight operation is applied to
MaxVoiceCalls == 4    \* invocations of listen_and_recognize in a session
MaxOutlierRows == 5   \* rows of a table the outlier rules are applied to

(***************************************************************************)
(* Values: cells of a table and comparison values.                         *)
(***************************************************************************)
Num(n) == [t |-> "num", n |-> n]
Str(s) == [t |-> "str", s |-> s]

\* A Python bool.
Bool(b) == [t |-> "bool", b |-> b]

NaN == [t |-> "nan"]
Inf == [t |-> "inf"]

None == [t |-> "none"]

\* Outcome of a call: a returned value or a raised exception.
Returned(v) == [kind |-> "return", value |-> v]
Raised(exc, msg) == [kind |-> "raise", exc |-> exc, message |-> msg]

\* The browser sessions served by the one server process.
Sessions == {"s1", "s2"}

\* The files the program writes, by the names the source gives them.
Paths == {"filtered_output.xlsx", "bar_chart.png"}

(***************************************************************************)
(* Python str operations, over TLA+ strings.                               *)
(***************************************************************************)
Char(s, i) == SubSeq(s, i, i)

Whitespace == {" ", "\t", "\n"}
Digits == {"0", "1", "2", "3", "4", "5", "6", "7", "8", "9"}
LowerLetters == {"a", "b", "c", "d", "e", "f", "g", "h", "i", "j", "k", "l", "m",
                 "n", "o", "p", "q", "r", "s", "t", "u", "v", "w", "x", "y", "z"}
WordChars == LowerLetters \cup Digits \cup {"_"} \cup
             {"A", "B", "C", "D", "E", "F", "G", "H", "I", "J", "K", "L", "M",
              "N", "O", "P", "Q", "R", "S", "T", "U", "V", "W", "X", "Y", "Z"}

LowerOf == [c \in {"A", "B", "C", "D", "E", "F", "G", "H", "I", "J", "K", "L", "M",
                   "N", "O", "P", "Q", "R", "S", "T", "U", "V", "W", "X", "Y", "Z"} |->
              CASE c = "A" -> "a" [] c = "B" -> "b" [] c = "C" -> "c" [] c = "D" -> "d"
                [] c = "E" -> "e" [] c = "F" -> "f" [] c = "G" -> "g" [] c = "H" -> "h"
                [] c = "I" -> "i" [] c = "J" -> "j" [] c = "K" -> "k" [] c = "L" -> "l"
                [] c = "M" -> "m" [] c = "N" -> "n" [] c = "O" -> "o" [] c = "P" -> "p"
                [] c = "Q" -> "q" [] c = "R" -> "r" [] c = "S" -> "s" [] c = "T" -> "t"
                [] c = "U" -> "u" [] c = "V" -> "v" [] c = "W" -> "w" [] c = "X" -> "x"
                [] c = "Y" -> "y" [] c = "Z" -> "z"]

\* str.lower()
RECURSIVE Lower(_)
Lower(s) ==
    IF s = "" THEN ""
    ELSE LET c == Head(s)
         IN (IF c \in DOMAIN LowerOf THEN LowerOf[c] ELSE c) \o Lower(Tail(s))

\* str.lstrip(), str.rstrip(), str.strip()
RECURSIVE LStrip(_)
LStrip(s) == IF s # "" /\ Head(s) \in Whitespace THEN LStrip(Tail(s)) ELSE s

RECURSIVE RStrip(_)
RStrip(s) ==
    IF s # "" /\ Char(s, Len(s)) \in Whitespace
    THEN RStrip(SubSeq(s, 1, Len(s) - 1))
    ELSE s

Strip(s) == RStrip(LStrip(s))

\* sub in s
Contains(sub, s) ==
    \E i \in 1..(Len(s) - Len(sub) + 1) : SubSeq(s, i, i + Len(sub) - 1) = sub

\* s.find(sub) + 1: the 1-based position of the first occurrence, 0 when absent
Find(sub, s) ==
    IF Contains(sub, s)
    THEN CHOOSE i \in 1..(Len(s) - Len(sub) + 1) :
            /\ SubSeq(s, i, i + Len(sub) - 1) = sub
            /\ \A j \in 1..(i - 1) : SubSeq(s, j, j + Len(sub) - 1) # sub
    ELSE 0

\* s.split(sep) for a one-character separator: the list of parts
RECURSIVE SplitOn(_, _)
SplitOn(s, sep) ==
    LET p == Find(sep, s)
    IN IF p = 0 THEN <<s>>
       ELSE <<SubSeq(s, 1, p - 1)>> \o SplitOn(SubSeq(s, p + 1, Len(s)), sep)

\* The longest prefix of s made of characters of the set cs.
RECURSIVE Span(_, _)
Span(s, cs) ==
    IF s # "" /\ Head(s) \in cs THEN Head(s) \o Span(Tail(s), cs) ELSE ""

\* The longest prefix of s made of characters outside the set cs.
RECURSIVE SpanNot(_, _)
SpanNot(s, cs) ==
    IF s # "" /\ Head(s) \notin cs THEN Head(s) \o SpanNot(Tail(s), cs) ELSE ""

\* s.split(): the whitespace-delimited tokens, none empty
RECURSIVE SplitWs(_)
SplitWs(s) ==
    LET t == LStrip(s)
    IN IF t = "" THEN <<>>
       ELSE LET w == SpanNot(t, Whitespace)
            IN <<w>> \o SplitWs(SubSeq(t, Len(w) + 1, Len(t)))

DigitValue(c) ==
    CASE c = "0" -> 0 [] c = "1" -> 1 [] c = "2" -> 2 [] c = "3" -> 3 [] c = "4" -> 4
      [] c = "5" -> 5 [] c = "6" -> 6 [] c = "7" -> 7 [] c = "8" -> 8 [] c = "9" -> 9

RECURSIVE DigitsToInt(_)
DigitsToInt(s) ==
    IF s = "" THEN 0
    ELSE 10 * DigitsToInt(SubSeq(s, 1, Len(s) - 1)) + DigitValue(Char(s, Len(s)))

\* float(token), for a token without surrounding whitespace: digit strings and
\* the words float() accepts; any other token of the alphabet is a ValueError.
ParseFloat(token) ==
    IF token # "" /\ Span(token, Digits) = token
    THEN Returned(Num(DigitsToInt(token)))
    ELSE IF token \in {"inf", "infinity"} THEN Returned(Inf)
    ELSE IF token = "nan" THEN Returned(NaN)
    ELSE Raised("ValueError", <<"could not convert string to float", token>>)

(***************************************************************************)
(* pandas operations.                                                      *)
(***************************************************************************)
Range(f) == {f[i] : i \in DOMAIN f}

\* column in df.columns
HasColumn(d, column) == column \in Range(d.columns)

\* position of a column of the table
ColumnIndex(d, column) == CHOOSE i \in DOMAIN d.columns : d.columns[i] = column

\* The characters of the model's alphabet in code-point order.
CodePoints == "\t\n 0123456789<=>ABCDEFGHIJKLMNOPQRSTUVWXYZ_abcdefghijklmnopqrstuvwxyz"

Ord(c) == CHOOSE i \in 1..Len(CodePoints) : Char(CodePoints, i) = c

\* a < b for two Python strings (lexicographic by code point)
RECURSIVE StrLess(_, _)
StrLess(a, b) ==
    IF b = "" THEN FALSE
    ELSE IF a = "" THEN TRUE
    ELSE IF Head(a) = Head(b) THEN StrLess(Tail(a), Tail(b))
    ELSE Ord(Head(a)) < Ord(Head(b))

OrderingOperators == {">", "<", ">=", "<="}

\* Python cannot order a string against a number: `cell <op> value` raises
\* TypeError.  A missing cell is skipped and a NaN value compares elementwise False.
Incomparable(cell, operator, value) ==
    /\ operator \in OrderingOperators
    /\ cell.t # "nan" /\ value.t # "nan"
    /\ (cell.t = "str") # (value.t = "str")

\* `cell <op> value` for one cell of a column, op one of the six comparisons
\* and the operands comparable.  A missing cell, and a NaN value, compare
\* False except under !=.
CompareCell(cell, operator, value) ==
    IF cell.t = "nan" \/ value.t = "nan" THEN operator = "!="
    ELSE IF cell.t = "str" /\ value.t = "str" THEN
        CASE operator = ">" -> StrLess(value.s, cell.s)
          [] operator = "<" -> StrLess(cell.s, value.s)
          [] operator = ">=" -> ~StrLess(cell.s, value.s)
          [] operator = "<=" -> ~StrLess(value.s, cell.s)
          [] operator = "==" -> cell.s = value.s
          [] operator = "!=" -> cell.s # value.s
    ELSE IF cell.t = "str" \/ value.t = "str" THEN operator = "!="
    ELSE IF value.t = "inf" THEN operator \in {"<", "<=", "!="}
    ELSE
        CASE operator = ">" -> cell.n > value.n
          [] operator = "<" -> cell.n < value.n
          [] operator = ">=" -> cell.n >= value.n
          [] operator = "<=" -> cell.n <= value.n
          [] operator = "==" -> cell.n = value.n
          [] operator = "!=" -> cell.n # value.n

\* df[column] <op> value: the boolean mask over the rows, or a TypeError
SeriesCompare(d, column, operator, value) ==
    LET c == ColumnIndex(d, column)
    IN IF \E i \in DOMAIN d.rows : Incomparable(d.rows[i].cells[c], operator, value)
       THEN Raised("TypeError", <<"not supported between instances", operator>>)
       ELSE Returned([i \in DOMAIN d.rows |->
                        CompareCell(d.rows[i].cells[c], operator, value)])

\* rows[mask]: the rows whose mask entry is True, in row order
RECURSIVE SelectRows(_, _)
SelectRows(rows, mask) ==
    IF rows = <<>> THEN <<>>
    ELSE (IF Head(mask) THEN <<Head(rows)>> ELSE <<>>) \o SelectRows(Tail(rows), Tail(mask))

\* df[mask]: a new DataFrame with the selected rows
Masked(d, mask) == [d EXCEPT !.obj = "derived", !.rows = SelectRows(d.rows, mask)]

\* dataframe.copy(): a new object with the same content
Copy(d, obj) == [d EXCEPT !.obj = obj]

\* The content of a DataFrame, whatever object holds it.
Content(d) == [columns |-> d.columns, dtypes |-> d.dtypes, rows |-> d.rows]

(***************************************************************************)
(* models/filtering.py: SmartFilter                                        *)
(***************************************************************************)
SupportedOperators == {">", "<", ">=", "<=", "==", "!="}

\* Lines 25-42 of apply_filter with the column check left out: an absent column
\* selects no row instead of raising.
ConditionMaskSilent(self_df, column, operator, value) ==
    IF ~HasColumn(self_df, column)
    THEN Returned([i \in DOMAIN self_df.rows |-> FALSE])
    ELSE IF operator \notin SupportedOperators
    THEN Raised("ValueError", <<"Unsupported operator", operator>>)
    ELSE SeriesCompare(self_df, column, operator, value)

\* Lines 25-42 of apply_filter: the mask of one condition, or the error it raises.
ConditionMask(self_df, column, operator, value) ==
    IF ~HasColumn(self_df, column)
    THEN Raised("ValueError", <<"Column not found in dataframe", column>>)
    ELSE IF operator \notin SupportedOperators
    THEN Raised("ValueError", <<"Unsupported operator", operator>>)
    ELSE SeriesCompare(self_df, column, operator, value)

\* mask & condition_mask, mask | condition_mask
MaskAnd(m1, m2) == [i \in DOMAIN m1 |-> m1[i] /\ m2[i]]
MaskOr(m1, m2) == [i \in DOMAIN m1 |-> m1[i] \/ m2[i]]

\* Lines 45-52 with the two operators exchanged.
CombineSwapped(i, lg, mask, condition_mask) ==
    IF i = 0 THEN Returned(condition_mask)
    ELSE IF lg = "AND" THEN Returned(MaskOr(mask, condition_mask))
    ELSE IF lg = "OR" THEN Returned(MaskAnd(mask, condition_mask))
    ELSE Raised("ValueError", <<"Unsupported logic", lg>>)

\* Lines 45-52 with the running mask overwritten under OR.
CombineOverwrite(i, lg, mask, condition_mask) ==
    IF i = 0 THEN Returned(condition_mask)
    ELSE IF lg = "AND" THEN Returned(MaskAnd(mask, condition_mask))
    ELSE IF lg = "OR" THEN Returned(condition_mask)
    ELSE Raised("ValueError", <<"Unsupported logic", lg>>)

\* Lines 45-52 of apply_filter: the running mask after the condition of
\* (0-based) position i, or the unsupported-logic error.
Combine(i, lg, mask, condition_mask) ==
    IF i = 0 THEN Returned(condition_mask)
    ELSE IF lg = "AND" THEN Returned(MaskAnd(mask, condition_mask))
    ELSE IF lg = "OR" THEN Returned(MaskOr(mask, condition_mask))
    ELSE Raised("ValueError", <<"Unsupported logic", lg>>)

\* The loop of apply_filter from the condition of (0-based) position i on,
\* with the running mask; then the selection of line 54.
RECURSIVE FilterLoop(_, _, _, _, _)
FilterLoop(self_df, conds, lg, i, mask) ==
    IF i >= Len(conds) THEN Returned(Masked(self_df, mask))
    ELSE
        LET condition_mask ==
                ConditionMask(self_df, conds[i + 1][1], conds[i + 1][2], conds[i + 1][3])
        IN IF condition_mask.kind = "raise" THEN condition_mask
           ELSE LET combined == Combine(i, lg, mask, condition_mask.value)
                IN IF combined.kind = "raise" THEN combined
                   ELSE FilterLoop(self_df, conds, lg, i + 1, combined.value)

\* apply_filter with the logic validated before anything else.
apply_filter_strict(self_df, conds, lg) ==
    IF lg \notin {"AND", "OR"} THEN Raised("ValueError", <<"Unsupported logic", lg>>)
    ELSE IF conds = <<>> THEN Returned(self_df)
    ELSE FilterLoop(self_df, conds, lg, 0, None)

\* SmartFilter.apply_filter(conditions, logic) on the filter's table self.df
apply_filter(self_df, conds, lg) ==
    IF conds = <<>> THEN Returned(self_df)
    ELSE FilterLoop(self_df, conds, lg, 0, None)

\* SmartFilter keeping the caller's DataFrame: self.df = dataframe
SmartFilterNoCopy(dataframe) == dataframe

\* SmartFilter(dataframe).df
SmartFilter(dataframe) == Copy(dataframe, "SmartFilter.df")

(***************************************************************************)
(* Python re.search for the three patterns of models/text_commands.py.     *)
(* A match is [matched, groups]; the leftmost match is the one returned.   *)
(***************************************************************************)
NoMatch == [matched |-> FALSE, groups |-> <<>>]

\* s[i:], 1-based
From(s, i) == SubSeq(s, i, Len(s))

StartsWith(s, prefix) == Len(prefix) <= Len(s) /\ SubSeq(s, 1, Len(prefix)) = prefix

Min(S) == CHOOSE x \in S : \A y \in S : x <= y

\* literal (\d+) anchored at the start of s: the digits matched, "" when no match
LiteralDigitsAt(s, literal) ==
    IF StartsWith(s, literal) THEN Span(From(s, Len(literal) + 1), Digits) ELSE ""

\* re.search(r'above (\d+)', s)
SearchAbove(s) ==
    LET starts == {i \in 1..Len(s) : LiteralDigitsAt(From(s, i), "above ") # ""}
    IN IF starts = {} THEN NoMatch
       ELSE [matched |-> TRUE,
             groups |-> <<LiteralDigitsAt(From(s, Min(starts)), "above ")>>]

\* below? (\d+) anchored at the start of s: "belo", an optional "w", a space, digits
BelowDigitsAt(s) ==
    IF LiteralDigitsAt(s, "below ") # "" THEN LiteralDigitsAt(s, "below ")
    ELSE LiteralDigitsAt(s, "belo ")

\* re.search(r'below? (\d+)', s)
SearchBelow(s) ==
    LET starts == {i \in 1..Len(s) : BelowDigitsAt(From(s, i)) # ""}
    IN IF starts = {} THEN NoMatch
       ELSE [matched |-> TRUE, groups |-> <<BelowDigitsAt(From(s, Min(starts)))>>]

\* (\w+)\s+greater than\s+(\d+) anchored at the start of s: the two groups, or
\* <<>> when there is no match.  Each greedy run must be maximal: the character
\* that follows it in the pattern is not of the run's class.
GreaterThanAt(s) ==
    LET word == Span(s, WordChars)
        r1 == From(s, Len(word) + 1)
        ws1 == Span(r1, Whitespace)
        r2 == From(r1, Len(ws1) + 1)
        r3 == From(r2, Len("greater than") + 1)
        ws2 == Span(r3, Whitespace)
        digits == Span(From(r3, Len(ws2) + 1), Digits)
    IN IF /\ word # ""
          /\ ws1 # ""
          /\ StartsWith(r2, "greater than")
          /\ ws2 # ""
          /\ digits # ""
       THEN <<word, digits>>
       ELSE <<>>

\* re.search(r'(\w+)\s+greater than\s+(\d+)', s)
SearchGreaterThan(s) ==
    LET starts == {i \in 1..Len(s) : GreaterThanAt(From(s, i)) # <<>>}
    IN IF starts = {} THEN NoMatch
       ELSE [matched |-> TRUE, groups |-> GreaterThanAt(From(s, Min(starts)))]

(***************************************************************************)
(* models/text_commands.py: TextCommandProcessor                           *)
(*                                                                         *)
(* An envelope is a record with an action and, by action, data, column and *)
(* message.  A message is [template, args]: the text of the f-string and   *)
(* the values formatted into it.                                           *)
(***************************************************************************)
Message(template, args) == [template |-> template, args |-> args]

ErrorEnvelope(template, args) == [action |-> "error", message |-> Message(template, args)]

\* except Exception as e: return {"action": "error", "message": f"<prefix>: {str(e)}"}
Catch(outcome, prefix) ==
    IF outcome.kind = "raise"
    THEN Returned(ErrorEnvelope(prefix, <<outcome.exc>>))
    ELSE outcome

\* df.select_dtypes(include=['number']).columns: the numeric columns, in column order
NumericColumns(d) == SelectSeq(d.columns, LAMBDA c : d.dtypes[ColumnIndex(d, c)] = "number")

\* 'mark' in col.lower() or 'score' in col.lower()
IsMarkColumn(col) == Contains("mark", Lower(col)) \/ Contains("score", Lower(col))

\* The first element of a sequence, as a one-element sequence; <<>> when the
\* sequence is empty (the loop `for x in seq: return x` finds nothing).
First(seq) == IF seq = <<>> THEN <<>> ELSE <<Head(seq)>>

\* lines 135-156 of _apply_filter: the comparison and the envelope, in the try block
ApplyFilterBody(d, column, operator, value) ==
    IF operator \in {">", "<", ">=", "<=", "=="}
    THEN LET mask == SeriesCompare(d, column, operator, value)
         IN IF mask.kind = "raise" THEN mask
            ELSE LET filtered_df == Masked(d, mask.value)
                 IN Returned([action |-> "filter",
                              data |-> filtered_df,
                              message |-> Message("Filtered {} rows where {} {} {}",
                                                  <<Len(filtered_df.rows), column,
                                                    operator, value>>)])
    ELSE Returned(ErrorEnvelope("Operator '{}' not supported", <<operator>>))

\* _apply_filter with the exact name required: no search for similar columns.
ApplyFilterExact(d, column, operator, value) ==
    IF ~HasColumn(d, column)
    THEN Returned(ErrorEnvelope("Column '{}' not found", <<column>>))
    ELSE Catch(ApplyFilterBody(d, column, operator, value), "Filter application error")

\* _apply_filter taking the last of the similar columns instead of the first.
ApplyFilterLastSimilar(d, column, operator, value) ==
    IF ~HasColumn(d, column)
    THEN LET similar_cols ==
                 SelectSeq(d.columns, LAMBDA col : Contains(Lower(column), Lower(col)))
         IN IF similar_cols # <<>>
            THEN Catch(ApplyFilterBody(d, similar_cols[Len(similar_cols)], operator, value),
                       "Filter application error")
            ELSE Returned(ErrorEnvelope("Column '{}' not found", <<column>>))
    ELSE Catch(ApplyFilterBody(d, column, operator, value), "Filter application error")

\* TextCommandProcessor._apply_filter(df, column, operator, value)
ApplyFilterTo(d, column, operator, value) ==
    IF ~HasColumn(d, column)
    THEN LET similar_cols ==
                 SelectSeq(d.columns, LAMBDA col : Contains(Lower(column), Lower(col)))
         IN IF similar_cols # <<>>
            THEN Catch(ApplyFilterBody(d, similar_cols[1], operator, value),
                       "Filter application error")
            ELSE Returned(ErrorEnvelope("Column '{}' not found", <<column>>))
    ELSE Catch(ApplyFilterBody(d, column, operator, value), "Filter application error")

\* Falling out of the try block of _process_filter_command.
CouldNotParseFilter == Returned(ErrorEnvelope("Could not parse filter command", <<>>))

\* lines 50-55 with '>=' understood: an '=' right after the '>' is taken off
\* the second part and the operator is '>='.
FilterByGreaterSignOrEqual(command, d) ==
    LET parts == SplitOn(command, ">")
    IN IF Len(parts) >= 2
       THEN LET or_equal == parts[2] # "" /\ Head(parts[2]) = "="
                before == SplitWs(Strip(parts[1]))
                after == SplitWs(Strip(IF or_equal THEN Tail(parts[2]) ELSE parts[2]))
            IN IF before = <<>> THEN Raised("IndexError", <<"list index out of range">>)
               ELSE IF after = <<>> THEN Raised("IndexError", <<"list index out of range">>)
               ELSE LET value == ParseFloat(after[1])
                    IN IF value.kind = "raise" THEN value
                       ELSE ApplyFilterTo(d, before[Len(before)],
                                          IF or_equal THEN ">=" ELSE ">", value.value)
       ELSE CouldNotParseFilter

\* lines 50-55: the '>' pattern
FilterByGreaterSign(command, d) ==
    LET parts == SplitOn(command, ">")
    IN IF Len(parts) >= 2
       THEN LET before == SplitWs(Strip(parts[1]))
                after == SplitWs(Strip(parts[2]))
            IN IF before = <<>> THEN Raised("IndexError", <<"list index out of range">>)
               ELSE IF after = <<>> THEN Raised("IndexError", <<"list index out of range">>)
               ELSE LET value == ParseFloat(after[1])
                    IN IF value.kind = "raise" THEN value
                       ELSE ApplyFilterTo(d, before[Len(before)], ">", value.value)
       ELSE CouldNotParseFilter

\* lines 57-64 taking the first numeric column, whatever its name.
FilterByAboveAnyColumn(command, d) ==
    LET match == SearchAbove(command)
    IN IF match.matched
       THEN LET value == ParseFloat(match.groups[1])
                target == First(NumericColumns(d))
            IN IF value.kind = "raise" THEN value
               ELSE IF target # <<>> THEN ApplyFilterTo(d, target[1], ">", value.value)
               ELSE CouldNotParseFilter
       ELSE CouldNotParseFilter

\* lines 57-64: the 'above <number>' pattern
FilterByAbove(command, d) ==
    LET match == SearchAbove(command)
    IN IF match.matched
       THEN LET value == ParseFloat(match.groups[1])
                target == First(SelectSeq(NumericColumns(d), IsMarkColumn))
            IN IF value.kind = "raise" THEN value
               ELSE IF target # <<>> THEN ApplyFilterTo(d, target[1], ">", value.value)
               ELSE CouldNotParseFilter
       ELSE CouldNotParseFilter

\* lines 66-71: the '<word> greater than <number>' pattern
FilterByGreaterThan(command, d) ==
    LET match == SearchGreaterThan(command)
    IN IF match.matched
       THEN LET value == ParseFloat(match.groups[2])
            IN IF value.kind = "raise" THEN value
               ELSE ApplyFilterTo(d, match.groups[1], ">", value.value)
       ELSE CouldNotParseFilter

\* The try block of _process_filter_command with the patterns tried one after
\* the other until one of them yields a filter.
FilterCommandBodyFallThrough(command, d) ==
    LET first == IF Contains(">", command)
                 THEN Catch(FilterByGreaterSign(command, d), "Filter error")
                 ELSE CouldNotParseFilter
        second_try == IF Contains("above", command) THEN FilterByAbove(command, d)
                      ELSE CouldNotParseFilter
    IN IF first.value.action = "filter" THEN first
       ELSE IF second_try.kind = "return" /\ second_try.value.action = "filter"
       THEN second_try
       ELSE IF Contains("greater than", command) THEN FilterByGreaterThan(command, d)
       ELSE CouldNotParseFilter

\* lines 49-71: the body of the try block of _process_filter_command
FilterCommandBody(command, d) ==
    IF Contains(">", command) THEN FilterByGreaterSign(command, d)
    ELSE IF Contains("above", command) THEN FilterByAbove(command, d)
    ELSE IF Contains("greater than", command) THEN FilterByGreaterThan(command, d)
    ELSE CouldNotParseFilter

\* _process_filter_command without its except clause.
ProcessFilterCommandNoCatch(command, d) == FilterCommandBody(command, d)

\* TextCommandProcessor._process_filter_command(command, df)
ProcessFilterCommand(command, d) == Catch(FilterCommandBody(command, d), "Filter error")

\* _process_chart_command taking the last matching column.
ProcessChartCommandLast(command, d) ==
    LET hits == SelectSeq(d.columns, LAMBDA col : Contains(Lower(col), command))
    IN IF hits # <<>>
       THEN Returned([action |-> "chart", column |-> hits[Len(hits)], data |-> d])
       ELSE Returned(ErrorEnvelope("Column not found for chart", <<>>))

\* TextCommandProcessor._process_chart_command(command, df)
ProcessChartCommand(command, d) ==
    LET hit == First(SelectSeq(d.columns, LAMBDA col : Contains(Lower(col), command)))
    IN IF hit # <<>>
       THEN Returned([action |-> "chart", column |-> hit[1], data |-> d])
       ELSE Returned(ErrorEnvelope("Column not found for chart", <<>>))

\* pd.concat(frames).rows: the rows of the frames one after the other
RECURSIVE Concat(_)
Concat(frames) == IF frames = <<>> THEN <<>> ELSE Head(frames) \o Concat(Tail(frames))

\* DataFrame.drop_duplicates(): of the rows with equal values the first is kept
RECURSIVE DropDuplicates(_, _)
DropDuplicates(rows, seen) ==
    IF rows = <<>> THEN <<>>
    ELSE IF Head(rows).cells \in seen THEN DropDuplicates(Tail(rows), seen)
    ELSE <<Head(rows)>> \o DropDuplicates(Tail(rows), seen \cup {Head(rows).cells})

\* pd.DataFrame(): a new table without columns or rows
EmptyDataFrame == [obj |-> "derived", columns |-> <<>>, dtypes |-> <<>>, rows |-> <<>>]

\* The rows of the table with a value below the threshold in the column.
LowRows(d, col, threshold) ==
    SelectSeq(d.rows, LAMBDA r : CompareCell(r.cells[ColumnIndex(d, col)], "<", threshold))

\* _highlight_low_values returning the concatenation as it is, without
\* drop_duplicates().
HighlightLowValuesNoDedup(d, threshold) ==
    LET mark_cols == SelectSeq(NumericColumns(d), IsMarkColumn)
        low == [i \in DOMAIN mark_cols |-> LowRows(d, mark_cols[i], threshold)]
        highlighted_rows == SelectSeq(low, LAMBDA rows : rows # <<>>)
    IN IF highlighted_rows # <<>>
       THEN LET rows == Concat(highlighted_rows)
            IN Returned([action |-> "highlight",
                         data |-> [d EXCEPT !.obj = "derived", !.rows = rows],
                         message |-> Message("Highlighted {} rows with values below {}",
                                             <<Len(rows), threshold>>)])
       ELSE Returned([action |-> "highlight",
                      data |-> EmptyDataFrame,
                      message |-> Message("No values found below {}", <<threshold>>)])

\* TextCommandProcessor._highlight_low_values(df, threshold)
HighlightLowValues(d, threshold) ==
    LET mark_cols == SelectSeq(NumericColumns(d), IsMarkColumn)
        low == [i \in DOMAIN mark_cols |-> LowRows(d, mark_cols[i], threshold)]
        highlighted_rows == SelectSeq(low, LAMBDA rows : rows # <<>>)
    IN IF highlighted_rows # <<>>
       THEN LET rows == DropDuplicates(Concat(highlighted_rows), {})
            IN Returned([action |-> "highlight",
                         data |-> [d EXCEPT !.obj = "derived", !.rows = rows],
                         message |-> Message("Highlighted {} rows with values below {}",
                                             <<Len(rows), threshold>>)])
       ELSE Returned([action |-> "highlight",
                      data |-> EmptyDataFrame,
                      message |-> Message("No values found below {}", <<threshold>>)])

\* TextCommandProcessor._process_highlight_command(command, df)
ProcessHighlightCommand(command, d) ==
    LET match == SearchBelow(command)
        unparsed == Returned(ErrorEnvelope("Could not parse highlight command", <<>>))
    IN IF Contains("low marks", command) \/ Contains("below", command)
       THEN IF match.matched
            THEN LET threshold == ParseFloat(match.groups[1])
                 IN Catch(IF threshold.kind = "raise" THEN threshold
                          ELSE HighlightLowValues(d, threshold.value),
                          "Highlight error")
            ELSE unparsed
       ELSE unparsed

\* TextCommandProcessor._process_summary_command(command, df).  The statistics
\* of describe() are kept as the list of the columns they are computed for.
ProcessSummaryCommand(command, d) ==
    Returned([action |-> "summary",
              data |-> [total_rows |-> Len(d.rows),
                        columns |-> d.columns,
                        numeric_columns |-> NumericColumns(d),
                        data_types |-> d.dtypes,
                        statistics |-> IF NumericColumns(d) # <<>> /\ d.rows # <<>>
                                       THEN NumericColumns(d) ELSE <<>>]])

(***************************************************************************)
(* models/automation.py: AutomationEngine.highlight_low_marks              *)
(***************************************************************************)
\* ['mark', 'grade', 'score', 'result', 'percentage']
MarkKeywords == {"mark", "grade", "score", "result", "percentage"}

\* Series.between(left, right) for one cell: both ends included, False for a
\* missing value
Between(cell, left, right) == cell.t = "num" /\ left <= cell.n /\ cell.n <= right

\* lines 21-31 with any() in place of all(): a numeric column counts as a
\* marks column as soon as one of its values is between 0 and 100.
MarksColumnsAnyInRange(self_df) ==
    LET named == SelectSeq(self_df.columns,
                           LAMBDA col : \E keyword \in MarkKeywords :
                                           Contains(keyword, Lower(col)))
    IN IF named # <<>> THEN named
       ELSE SelectSeq(NumericColumns(self_df),
                      LAMBDA col : \E i \in DOMAIN self_df.rows :
                          Between(self_df.rows[i].cells[ColumnIndex(self_df, col)], 0, 100))

\* lines 21-31: the columns named like marks; if there is none, the numeric
\* columns whose values are all between 0 and 100
MarksColumns(self_df) ==
    LET named == SelectSeq(self_df.columns,
                           LAMBDA col : \E keyword \in MarkKeywords :
                                           Contains(keyword, Lower(col)))
    IN IF named # <<>> THEN named
       ELSE SelectSeq(NumericColumns(self_df),
                      LAMBDA col : \A i \in DOMAIN self_df.rows :
                          Between(self_df.rows[i].cells[ColumnIndex(self_df, col)], 0, 100))

\* AutomationEngine(dataframe).df
AutomationEngine(dataframe) == Copy(dataframe, "AutomationEngine.df")

\* AutomationEngine.highlight_low_marks(threshold) on the engine's table
\* self.df.  The comparison of a text column with the threshold raises, and
\* nothing in the method catches it.
highlight_low_marks(self_df, threshold) ==
    LET marks_columns == MarksColumns(self_df)
        masks == [i \in DOMAIN marks_columns |->
                     SeriesCompare(self_df, marks_columns[i], "<", threshold)]
    IN IF \E i \in DOMAIN masks : masks[i].kind = "raise"
       THEN masks[CHOOSE i \in DOMAIN masks :
                      /\ masks[i].kind = "raise"
                      /\ \A j \in 1..(i - 1) : masks[j].kind # "raise"]
       ELSE LET low == [i \in DOMAIN masks |-> SelectRows(self_df.rows, masks[i].value)]
                low_marks_data == SelectSeq(low, LAMBDA rows : rows # <<>>)
            IN IF low_marks_data = <<>> THEN Returned(EmptyDataFrame)
               ELSE Returned([self_df EXCEPT !.obj = "derived",
                                             !.rows = DropDuplicates(Concat(low_marks_data), {})])

(***************************************************************************)
(* models/voice_commands.py: VoiceCommandProcessor                         *)
(***************************************************************************)
\* The text listen_and_recognize returns without a recording device and when
\* recording or recognition fails.
DemoCommand == "show students above 80"

\* What the speech recognition may return for a recording; the empty text is
\* what app.py answers with "No speech detected".
RecognizedTexts ==
    {"Show students above 80", "Create bar chart for marks",
     "Filter where age greater than 20", "marks above", "create bar chart for",
     "filter where greater than 20", "hello", ""}

\* listen_and_recognize answering nothing without a recording device.
listen_and_recognize_silent(self_audio_available) ==
    IF ~self_audio_available THEN {""}
    ELSE RecognizedTexts \cup {DemoCommand}

\* VoiceCommandProcessor.listen_and_recognize(): the texts a call may return.
\* With a recording device it is what the recognition returns or, when
\* anything in the try block fails, the demo command.
listen_and_recognize(self_audio_available) ==
    IF ~self_audio_available THEN {DemoCommand}
    ELSE RecognizedTexts \cup {DemoCommand}

\* bar chart for (\w+) anchored at the start of s: the word matched, "" when no match
BarChartForAt(s) ==
    IF StartsWith(s, "bar chart for ")
    THEN Span(From(s, Len("bar chart for ") + 1), WordChars)
    ELSE ""

\* re.search(r"bar chart for (\w+)", s)
SearchBarChartFor(s) ==
    LET starts == {i \in 1..Len(s) : BarChartForAt(From(s, i)) # ""}
    IN IF starts = {} THEN NoMatch
       ELSE [matched |-> TRUE, groups |-> <<BarChartForAt(From(s, Min(starts)))>>]

\* filter where (\w+) greater than (\d+) anchored at the start of s: the two
\* groups, or <<>> when there is no match
FilterWhereAt(s) ==
    IF StartsWith(s, "filter where ")
    THEN LET r1 == From(s, Len("filter where ") + 1)
             word == Span(r1, WordChars)
             r2 == From(r1, Len(word) + 1)
             digits == Span(From(r2, Len(" greater than ") + 1), Digits)
         IN IF word # "" /\ StartsWith(r2, " greater than ") /\ digits # ""
            THEN <<word, digits>>
            ELSE <<>>
    ELSE <<>>

\* re.search(r"filter where (\w+) greater than (\d+)", s)
SearchFilterWhere(s) ==
    LET starts == {i \in 1..Len(s) : FilterWhereAt(From(s, i)) # <<>>}
    IN IF starts = {} THEN NoMatch
       ELSE [matched |-> TRUE, groups |-> FilterWhereAt(From(s, Min(starts)))]

\* VoiceCommandProcessor.process_command(text): the action dict
voice_process_command(text) ==
    LET t == Lower(text)
        unknown == [action |-> "unknown"]
    IN IF Contains("show students above", t) \/ Contains("marks above", t)
       THEN IF SearchAbove(t).matched
            THEN [action |-> "filter",
                  conditions |-> <<<<"Marks", ">",
                                     ParseFloat(SearchAbove(t).groups[1]).value>>>>,
                  logic |-> "AND"]
            ELSE unknown
       ELSE IF Contains("create bar chart for", t)
       THEN IF SearchBarChartFor(t).matched
            THEN [action |-> "chart", column |-> SearchBarChartFor(t).groups[1]]
            ELSE unknown
       ELSE IF Contains("filter where", t) /\ Contains("greater than", t)
       THEN IF SearchFilterWhere(t).matched
            THEN [action |-> "filter",
                  conditions |-> <<<<SearchFilterWhere(t).groups[1], ">",
                                     ParseFloat(SearchFilterWhere(t).groups[2]).value>>>>,
                  logic |-> "AND"]
            ELSE unknown
       ELSE unknown

(***************************************************************************)
(* models/automation.py: AutomationEngine.plot_bar_chart                   *)
(***************************************************************************)
\* chart_path="bar_chart.png"
DefaultChartPath == "bar_chart.png"

\* Series.value_counts(): how often each value occurs, missing values left out
ValueCounts(d, column) ==
    LET c == ColumnIndex(d, column)
        values == {d.rows[i].cells[c] : i \in DOMAIN d.rows} \ {NaN}
    IN [v \in values |-> Cardinality({i \in DOMAIN d.rows : d.rows[i].cells[c] = v})]

\* The picture plot_bar_chart draws: the bars and the column in the title.
BarChart(d, column) == [column |-> column, bars |-> ValueCounts(d, column)]

\* plot_bar_chart returning the path without plt.savefig.
plot_bar_chart_unsaved(self_df, column_name, chart_path, fs, saved) ==
    IF ~HasColumn(self_df, column_name)
    THEN [outcome |-> Raised("ValueError", <<"Column '{}' not found in dataframe",
                                             column_name>>),
          files |-> fs]
    ELSE IF saved
    THEN [outcome |-> Returned(Str(chart_path)), files |-> fs]
    ELSE [outcome |-> Returned(None), files |-> fs]

\* AutomationEngine.plot_bar_chart(column_name, chart_path) on the engine's
\* table self.df, with the files fs: the outcome of the call (the path as
\* Str(path), or None) and the files after it.  saved tells whether drawing and plt.savefig went through; if
\* not, the except clause returns None and the file is as it was.
plot_bar_chart(self_df, column_name, chart_path, fs, saved) ==
    IF ~HasColumn(self_df, column_name)
    THEN [outcome |-> Raised("ValueError", <<"Column '{}' not found in dataframe",
                                             column_name>>),
          files |-> fs]
    ELSE IF saved
    THEN [outcome |-> Returned(Str(chart_path)),
          files |-> [fs EXCEPT ![chart_path] = BarChart(self_df, column_name)]]
    ELSE [outcome |-> Returned(None), files |-> fs]

(***************************************************************************)
(* models/insights.py and models/error_detection.py: the outlier rules.    *)
(* A quantile of integers at a quarter is held as four times its value,    *)
(* which is an integer; the comparisons with the bounds are made on both   *)
(* sides multiplied by the same positive number.                           *)
(***************************************************************************)
\* The sequence with x put into the ascending sequence s at its place.
RECURSIVE Insert(_, _)
Insert(x, s) ==
    IF s = <<>> THEN <<x>>
    ELSE IF x <= Head(s) THEN <<x>> \o s
    ELSE <<Head(s)>> \o Insert(x, Tail(s))

\* The values of the sequence in ascending order.
RECURSIVE Sorted(_)
Sorted(s) == IF s = <<>> THEN <<>> ELSE Insert(Head(s), Sorted(Tail(s)))

\* The numbers of the column in row order, missing values left out.
NumbersOf(d, column) ==
    LET c == ColumnIndex(d, column)
        present == SelectSeq(d.rows, LAMBDA row : row.cells[c].t = "num")
    IN [i \in DOMAIN present |-> present[i].cells[c].n]

\* 4 * Series.quantile(k / 4) of a non-empty sequence of numbers: linear
\* interpolation between the two values around position (n - 1) * k / 4 of
\* the sorted values.
Quantile4(numbers, k) ==
    LET x == Sorted(numbers)
        lo == ((Len(x) - 1) * k) \div 4
        r == ((Len(x) - 1) * k) % 4
    IN IF r = 0 THEN 4 * x[lo + 1]
       ELSE 4 * x[lo + 1] + r * (x[lo + 2] - x[lo + 1])

\* 1.5 * IQR in insights.py, as a fraction
OutlierFactor == [num |-> 3, den |-> 2]

\* The error report's factor set below the insight report's: 1 * IQR.
ExtremeFactorOne == [num |-> 1, den |-> 1]

\* 3 * IQR in error_detection.py, as a fraction
ExtremeFactor == [num |-> 3, den |-> 1]

\* len(df[(df[col] < Q1 - f * IQR) | (df[col] > Q3 + f * IQR)]): the number
\* of rows outside the bounds.  A missing value is outside of nothing, and
\* without any number the quantiles are NaN and no row is outside.
CountOutside(d, column, f) ==
    LET numbers == NumbersOf(d, column)
    IN IF numbers = <<>> THEN 0
       ELSE LET Q1 == Quantile4(numbers, 1)
                Q3 == Quantile4(numbers, 3)
                IQR == Q3 - Q1
                lower_bound == f.den * Q1 - f.num * IQR
                upper_bound == f.den * Q3 + f.num * IQR
            IN Cardinality({i \in DOMAIN numbers :
                               \/ 4 * f.den * numbers[i] < lower_bound
                               \/ 4 * f.den * numbers[i] > upper_bound})

\* InsightGenerator.generate_summary(): the number of outliers reported for
\* each numeric column
generate_summary(self_df) ==
    [i \in DOMAIN NumericColumns(self_df) |->
        [column |-> NumericColumns(self_df)[i],
         outliers |-> CountOutside(self_df, NumericColumns(self_df)[i], OutlierFactor)]]

\* ErrorDetector.detect_formula_inconsistencies(): the number of extreme
\* outliers found in each numeric column
detect_formula_inconsistencies(self_df) ==
    [i \in DOMAIN NumericColumns(self_df) |->
        [column |-> NumericColumns(self_df)[i],
         extreme_outliers |->
             CountOutside(self_df, NumericColumns(self_df)[i], ExtremeFactor)]]

FilterTokens == {">", "<", ">=", "<=", "==", "above", "below", "greater", "less"}
ChartKeywords == {"chart", "plot", "graph"}
HighlightKeywords == {"highlight", "mark"}
SummaryKeywords == {"summary", "insights", "analyze"}

ContainsAny(keywords, command) == \E k \in keywords : Contains(k, command)

UnknownEnvelope ==
    [action |-> "unknown",
     message |-> Message("Command not recognized. Try: 'filter marks > 80' or 'create chart for marks'",
                         <<>>)]

\* process_command with the chart rule tried before the filter rule.
process_command_chart_first(text, d) ==
    LET command == Strip(Lower(text))
    IN IF ContainsAny(ChartKeywords, command) THEN ProcessChartCommand(command, d)
       ELSE IF ContainsAny(FilterTokens, command) THEN ProcessFilterCommand(command, d)
       ELSE IF ContainsAny(HighlightKeywords, command) THEN ProcessHighlightCommand(command, d)
       ELSE IF ContainsAny(SummaryKeywords, command) THEN ProcessSummaryCommand(command, d)
       ELSE Returned(UnknownEnvelope)

\* TextCommandProcessor.process_command(command_text, df)
process_command(text, d) ==
    LET command == Strip(Lower(text))
    IN IF ContainsAny(FilterTokens, command) THEN ProcessFilterCommand(command, d)
       ELSE IF ContainsAny(ChartKeywords, command) THEN ProcessChartCommand(command, d)
       ELSE IF ContainsAny(HighlightKeywords, command) THEN ProcessHighlightCommand(command, d)
       ELSE IF ContainsAny(SummaryKeywords, command) THEN ProcessSummaryCommand(command, d)
       ELSE Returned(UnknownEnvelope)

(***************************************************************************)
(* Inputs: tables, condition lists.                                        *)
(***************************************************************************)
\* All sequences over S of length at most n.
SeqsUpTo(S, n) == UNION {[1..k -> S] : k \in 0..n}

(***************************************************************************)
(* filtering.py, SmartFilter.save_to_excel.                                *)
(***************************************************************************)
FilteredOutput == "filtered_output.xlsx"

\* dataframe.to_excel(filename, index=False): the sheet holds the column
\* names and the cells row by row, without the index.
ToExcel(dataframe) ==
    [sheet |-> <<dataframe.columns>>
                   \o [i \in DOMAIN dataframe.rows |-> dataframe.rows[i].cells]]

\* SmartFilter.save_to_excel(dataframe, filename) with the files fs: what it
\* returns and the files after it.  write_ok tells whether to_excel could
\* write; when it could not the exception is printed and False is returned,
\* and the file is as it was.
save_to_excel(fs, dataframe, filename, write_ok) ==
    IF write_ok
    THEN [outcome |-> Returned(Bool(TRUE)),
          files |-> [fs EXCEPT ![filename] = ToExcel(dataframe)]]
    ELSE [outcome |-> Returned(Bool(FALSE)), files |-> fs]

CellValues(dtype) ==
    IF dtype = "number" THEN {Num(30), Num(90), NaN} ELSE {Str("bob")}

\* The tables with the given columns and dtypes and at most n rows, indexed 0, 1, ...
TablesOf(cols, dtypes, n) ==
    {[obj |-> "session", columns |-> cols, dtypes |-> dtypes,
      rows |-> [i \in DOMAIN cs |-> [idx |-> i - 1, cells |-> cs[i]]]] :
        cs \in SeqsUpTo({c \in [DOMAIN cols -> CellValues("number") \cup CellValues("object")] :
                            \A j \in DOMAIN cols : c[j] \in CellValues(dtypes[j])}, n)}

FilterTables ==
    TablesOf(<<"Marks">>, <<"number">>, MaxRows)
      \cup TablesOf(<<"Marks", "Name">>, <<"number", "object">>, MaxRows)

FilterColumns == {"Marks", "Name"}
FilterOperators == SupportedOperators \cup {"~"}
FilterValues == {Num(50), Str("amy")}
Logics == {"AND", "OR", "XOR"}

ConditionLists == SeqsUpTo(FilterColumns \X FilterOperators \X FilterValues, MaxConds)

\* The schemas (column names and dtypes) of the tables commands are run against.
CommandSchemas ==
    {<<<<"Marks">>, <<"number">>>>,
     <<<<"Marks">>, <<"object">>>>,
     <<<<"Marks ">>, <<"number">>>>,
     <<<<"Score">>, <<"number">>>>,
     <<<<"Name">>, <<"object">>>>,
     <<<<"Age">>, <<"number">>>>,
     <<<<"Age", "Score">>, <<"number", "number">>>>,
     <<<<"Name", "Marks">>, <<"object", "number">>>>,
     <<<<"Remarks", "Score">>, <<"object", "number">>>>,
     <<<<"Total Marks", "Marks">>, <<"number", "number">>>>,
     <<<<"Marks", "Total Marks">>, <<"number", "number">>>>,
     <<<<"marks", "Marks">>, <<"number", "number">>>>,
     <<<<"Name", "Score", "Marks">>, <<"object", "number", "number">>>>}

CommandTables ==
    TablesOf(<<>>, <<>>, 0)
      \cup UNION {TablesOf(schema[1], schema[2], MaxCommandRows) : schema \in CommandSchemas}

\* The words command texts are built from.
Vocabulary == {"marks", ">", "80", "above", "chart", "summary", "highlight", "hello"}

\* ' '.join(words)
RECURSIVE Join(_)
Join(words) ==
    IF words = <<>> THEN ""
    ELSE IF Len(words) = 1 THEN words[1]
    ELSE words[1] \o " " \o Join(Tail(words))

WordTexts(n) == {Join(words) : words \in SeqsUpTo(Vocabulary, n)}

\* The commands the program and its specification document.
DocumentedCommands ==
    {"filter marks > 80", "show students with marks above 70",
     "create chart for marks column", "highlight low marks below 40",
     "filter age > 20", "show rows where score >= 85",
     "show students above 80", "create chart for marks",
     "filter where age greater than 20", "summary", "hello world",
     "Show students above 80", "Create bar chart for marks",
     "Filter where age greater than 20"}

\* Further texts: other spacing and case, the other comparison tokens, the
\* keywords of each rule.
OtherCommands ==
    {"  Filter MARKS > 80 ", "marks>80", "marks > 80 90", "marks > > 80",
     "marks > 80", "marks > hello", "hello > 80", "above 80 chart", "chart marks summary",
     "highlight marks summary", "summary of marks", "marks above 80",
     "filter marks > nan", "filter marks > inf", "total > 80",
     "marks greater than 80", "total  greater than  80", "above marks greater than 80",
     "marks greater than 80 >", "name above marks greater than 80",
     "marks > 80 >= 90", "marks >=80", "marks >= 80 > 90",
     "marks greater 80", "marks above x above 80", "marks above80",
     "marks < 80", "marks <= 80", "marks == 80", "marks less 80",
     "highlight low marks belo 40", "highlight low marks", "mark 40",
     "name > 80", "score above 80", "chart marks above 80", "marks >= 80", "marks below 80", "chart name",
     "plot score", "graph of total marks", "insights", "analyze name"}

CommandTexts ==
    WordTexts(MaxWords)
      \cup {" " \o t \o " " : t \in WordTexts(MaxWords - 1)}
      \cup DocumentedCommands
      \cup OtherCommands

(***************************************************************************)
(* The state machine.                                                      *)
(***************************************************************************)
NoCall ==
    /\ conditions = <<>>
    /\ logic = "AND"
    /\ filtered = None
    /\ command_text = ""
    /\ result = None
    /\ highlight_threshold = None
    /\ second = None
    /\ report = None
    /\ save_outcome = None
    /\ shown = <<>>

\* No recording device, nothing heard, no file written, no chart requested.
NewWorld ==
    /\ audio_available = FALSE
    /\ listening = FALSE
    /\ command_result = None
    /\ heard = <<>>
    /\ files = [p \in Paths |-> None]
    /\ session_df = [s \in Sessions |-> None]
    /\ chart_pc = [s \in Sessions |-> "idle"]
    /\ chart_col = [s \in Sessions |-> None]
    /\ returned_path = [s \in Sessions |-> None]
    /\ displayed = [s \in Sessions |-> None]

InitFilter ==
    /\ df \in FilterTables
    /\ pc = "idle"
    /\ NoCall
    /\ NewWorld

\* app.py "Apply Filter": sf = SmartFilter(df); sf.apply_filter(conditions, logic)
ApplyFilter ==
    /\ pc = "idle"
    /\ \E conds \in ConditionLists, lg \in Logics :
          /\ conditions' = conds
          /\ logic' = lg
          /\ filtered' = apply_filter(SmartFilter(df), conds, lg)
    /\ pc' = "done"
    /\ UNCHANGED <<df, command_text, result, highlight_threshold,
              second, report, save_outcome, shown, worldVars>>

\* The script reruns for the next interaction: the handlers' locals are gone,
\* the session table stays.
Rerun ==
    /\ pc = "done"
    /\ pc' = "idle"
    /\ conditions' = <<>>
    /\ logic' = "AND"
    /\ filtered' = None
    /\ command_text' = ""
    /\ result' = None
    /\ highlight_threshold' = None
    /\ second' = None
    /\ report' = None
    /\ save_outcome' = None
    /\ shown' = <<>>
    /\ UNCHANGED <<df, worldVars>>

InitCommand ==
    /\ df \in CommandTables
    /\ pc = "idle"
    /\ NoCall
    /\ NewWorld

\* TextCommandProcessor().process_command(command_text, df)
ProcessCommand ==
    /\ pc = "idle"
    /\ \E text \in CommandTexts :
          /\ command_text' = text
          /\ result' = process_command(text, df)
    /\ pc' = "done"
    /\ UNCHANGED <<df, conditions, logic, filtered, highlight_threshold, second, report, save_outcome,
                   shown, worldVars>>

NextFilter == ApplyFilter \/ Rerun

SpecFilter == InitFilter /\ [][NextFilter]_vars

NextCommand == ProcessCommand \/ Rerun

SpecCommand == InitCommand /\ [][NextCommand]_vars

(***************************************************************************)
(* The highlight operations on their own: _highlight_low_values of         *)
(* models/text_commands.py and highlight_low_marks of models/automation.py *)
(* applied to a table, and applied once more to the table they returned.   *)
(***************************************************************************)
HighlightCellValues(dtype) ==
    IF dtype = "number" THEN {Num(-5), Num(30), Num(90), NaN} ELSE {Str("bob")}

\* The tables with the given columns and dtypes and at most n rows over the
\* cells of the highlight operations.
HighlightTablesOf(cols, dtypes, n) ==
    {[obj |-> "session", columns |-> cols, dtypes |-> dtypes,
      rows |-> [i \in DOMAIN cs |-> [idx |-> i - 1, cells |-> cs[i]]]] :
        cs \in SeqsUpTo({c \in [DOMAIN cols -> HighlightCellValues("number")
                                                 \cup HighlightCellValues("object")] :
                            \A j \in DOMAIN cols : c[j] \in HighlightCellValues(dtypes[j])},
                        n)}

HighlightSchemas ==
    {<<<<"Marks", "Score">>, <<"number", "number">>>>,
     <<<<"Name", "Marks">>, <<"object", "number">>>>,
     <<<<"Age", "Height">>, <<"number", "number">>>>,
     <<<<"Remarks", "Score">>, <<"object", "number">>>>,
     <<<<"Grade">>, <<"number">>>>}

HighlightTables ==
    UNION {HighlightTablesOf(schema[1], schema[2], MaxHighlightRows) :
              schema \in HighlightSchemas}

\* 40 is the default of highlight_low_marks and the documented threshold.
HighlightThresholds == {Num(0), Num(40), Num(100)}

InitHighlight ==
    /\ df \in HighlightTables
    /\ pc = "idle"
    /\ NoCall
    /\ NewWorld

\* TextCommandProcessor()._highlight_low_values(df, threshold)
HighlightLow ==
    /\ pc = "idle"
    /\ \E t \in HighlightThresholds :
          /\ highlight_threshold' = t
          /\ result' = HighlightLowValues(df, t)
    /\ pc' = "done"
    /\ UNCHANGED <<df, conditions, logic, filtered, command_text, second, report, save_outcome, shown,
                   worldVars>>

\* app.py "Automation Rules": ae = AutomationEngine(df); ae.highlight_low_marks(threshold)
HighlightLowMarks ==
    /\ pc = "idle"
    /\ \E t \in HighlightThresholds :
          /\ highlight_threshold' = t
          /\ result' = highlight_low_marks(AutomationEngine(df), t)
    /\ pc' = "done"
    /\ UNCHANGED <<df, conditions, logic, filtered, command_text, second, report, save_outcome, shown,
                   worldVars>>

\* The outcome of the last highlight call is an envelope of _highlight_low_values.
IsEnvelope(outcome) == outcome.kind = "return" /\ "action" \in DOMAIN outcome.value

\* The outcome of the last highlight call is a table of highlight_low_marks.
IsTable(outcome) == outcome.kind = "return" /\ "rows" \in DOMAIN outcome.value

\* The same operation with the same threshold on the table it returned.
HighlightAgain ==
    /\ pc = "done"
    /\ highlight_threshold # None
    /\ second = None
    /\ \/ /\ IsEnvelope(result)
          /\ second' = HighlightLowValues(result.value.data, highlight_threshold)
       \/ /\ IsTable(result)
          /\ second' = highlight_low_marks(AutomationEngine(result.value),
                                           highlight_threshold)
    /\ UNCHANGED <<df, pc, conditions, logic, filtered, command_text, result,
                   highlight_threshold, report, save_outcome, shown, worldVars>>

NextHighlight == HighlightLow \/ HighlightLowMarks \/ HighlightAgain \/ Rerun

SpecHighlight == InitHighlight /\ [][NextHighlight]_vars

(***************************************************************************)
(* app.py, "Voice Commands": the button handler and the display of the     *)
(* last command.                                                           *)
(***************************************************************************)
\* st.success, st.error, st.warning: a message on the page
Say(kind, text) == [kind |-> kind, text |-> text]

\* st.image, st.download_button: the content of a file on the page
Show(kind, content) == [kind |-> kind, content |-> content]

VoiceTables ==
    TablesOf(<<"Marks">>, <<"number">>, 1)
      \cup TablesOf(<<"age", "marks">>, <<"number", "number">>, 1)

InitVoice ==
    /\ df \in VoiceTables
    /\ pc = "idle"
    /\ NoCall
    /\ audio_available \in BOOLEAN
    /\ listening = FALSE
    /\ command_result = None
    /\ heard = <<>>
    /\ files = [p \in Paths |-> None]
    /\ session_df = [s \in Sessions |-> None]
    /\ chart_pc = [s \in Sessions |-> "idle"]
    /\ chart_col = [s \in Sessions |-> None]
    /\ returned_path = [s \in Sessions |-> None]
    /\ displayed = [s \in Sessions |-> None]

\* "Start Voice Command" with the listening flag cleared where the command is
\* processed instead of in a finally clause, and the last result kept until a
\* new one is there.
VoiceCommandNoFinally ==
    /\ pc = "idle"
    /\ ~listening
    /\ Len(heard) < MaxVoiceCalls
    /\ \E text \in listen_and_recognize(audio_available) :
          /\ heard' = Append(heard, text)
          /\ command_result' =
                IF text # ""
                THEN [text |-> text, action |-> voice_process_command(text)]
                ELSE command_result
          /\ shown' = IF text # "" THEN <<Say("success", "Processing command...")>>
                      ELSE <<Say("warning", "No speech detected. Please try again.")>>
          /\ listening' = (text = "")
    /\ pc' = "done"
    /\ UNCHANGED <<df, conditions, logic, filtered, command_text, result,
                   highlight_threshold, second, report, save_outcome, audio_available, files,
                   session_df, chart_pc, chart_col, returned_path, displayed>>

\* app.py lines 65-94, "Start Voice Command": the button is enabled while the
\* listening flag is False.  The flag is set and command_result is reset to
\* None (lines 68-69); vcp.listen_and_recognize(), then, for a non-empty
\* text, vcp.process_command(command_text) into the session state (lines
\* 77-86); the finally clause clears the listening flag and reruns the
\* script (lines 91-93).  Neither call raises an Exception, so the except
\* clause of lines 88-90 is never entered.
VoiceCommand ==
    /\ pc = "idle"
    /\ ~listening
    /\ Len(heard) < MaxVoiceCalls
    /\ \E text \in listen_and_recognize(audio_available) :
          /\ heard' = Append(heard, text)
          /\ command_result' =
                IF text # ""
                THEN [text |-> text, action |-> voice_process_command(text)]
                ELSE None
          /\ shown' = IF text # "" THEN <<Say("success", "Processing command...")>>
                      ELSE <<Say("warning", "No speech detected. Please try again.")>>
    /\ listening' = FALSE
    /\ pc' = "done"
    /\ UNCHANGED <<df, conditions, logic, filtered, command_text, result,
                   highlight_threshold, second, report, save_outcome, audio_available, files,
                   session_df, chart_pc, chart_col, returned_path, displayed>>

\* app.py lines 97-127, "Last Command": the action of the last voice command
\* is carried out on the session table.
ShowCommandResult ==
    /\ pc = "idle"
    /\ command_result # None
    /\ LET action == command_result.action
       IN CASE action.action = "filter" ->
                 LET filtered_df == apply_filter(SmartFilter(df), action.conditions,
                                                 action.logic)
                 IN /\ conditions' = action.conditions
                    /\ logic' = action.logic
                    /\ filtered' = filtered_df
                    /\ shown' = IF filtered_df.kind = "raise"
                                THEN <<Say("error", "Error applying filter")>>
                                ELSE <<Say("success", "Filter applied successfully!")>>
                    /\ UNCHANGED files
            [] action.action = "chart" ->
                 \E saved \in BOOLEAN :
                    LET call == plot_bar_chart(AutomationEngine(df), action.column,
                                               DefaultChartPath, files, saved)
                        chart_path == call.outcome
                    IN /\ files' = call.files
                       /\ shown' =
                             IF chart_path.kind = "raise"
                             THEN <<Say("error", "Error creating chart")>>
                             ELSE IF chart_path.value # None
                                     /\ call.files[chart_path.value.s] # None
                             THEN <<Say("success", "Chart generated successfully!"),
                                    Show("image", call.files[chart_path.value.s])>>
                             ELSE <<Say("error", "Failed to generate chart")>>
                       /\ UNCHANGED <<conditions, logic, filtered>>
            [] OTHER ->
                 /\ shown' = <<Say("warning", "Command not recognized.")>>
                 /\ UNCHANGED <<conditions, logic, filtered, files>>
    /\ pc' = "done"
    /\ UNCHANGED <<df, command_text, result, highlight_threshold, second, report, save_outcome,
                   audio_available, listening, command_result, heard, session_df,
                   chart_pc, chart_col, returned_path, displayed>>

NextVoice == VoiceCommand \/ ShowCommandResult \/ Rerun

SpecVoice == InitVoice /\ [][NextVoice]_vars

(***************************************************************************)
(* app.py, "Automatic Insights" and "Error Detection".                     *)
(***************************************************************************)
OutlierCellValues(dtype) ==
    IF dtype = "number" THEN {Num(0), Num(2), Num(5), NaN} ELSE {Str("bob")}

\* The tables with the given columns and dtypes and at most n rows over the
\* cells of the outlier rules.
OutlierTablesOf(cols, dtypes, n) ==
    {[obj |-> "session", columns |-> cols, dtypes |-> dtypes,
      rows |-> [i \in DOMAIN cs |-> [idx |-> i - 1, cells |-> cs[i]]]] :
        cs \in SeqsUpTo({c \in [DOMAIN cols -> OutlierCellValues("number")
                                                 \cup OutlierCellValues("object")] :
                            \A j \in DOMAIN cols : c[j] \in OutlierCellValues(dtypes[j])},
                        n)}

OutlierTables ==
    OutlierTablesOf(<<"Marks">>, <<"number">>, MaxOutlierRows)
      \cup OutlierTablesOf(<<"Name", "Marks">>, <<"object", "number">>, 1)

InitAnalyze ==
    /\ df \in OutlierTables
    /\ pc = "idle"
    /\ NoCall
    /\ NewWorld

\* app.py lines 141-159: InsightGenerator(df).generate_summary() and
\* ErrorDetector(df).detect_formula_inconsistencies(), each on its own copy
\* of the session table
Analyze ==
    /\ pc = "idle"
    /\ report' = [insights |-> generate_summary(Copy(df, "InsightGenerator.df")),
                  inconsistencies |->
                      detect_formula_inconsistencies(Copy(df, "ErrorDetector.df"))]
    /\ pc' = "done"
    /\ UNCHANGED <<df, conditions, logic, filtered, command_text, result,
                   highlight_threshold, second, save_outcome, shown, worldVars>>

NextAnalyze == Analyze \/ Rerun

SpecAnalyze == InitAnalyze /\ [][NextAnalyze]_vars

(***************************************************************************)
(* A session: every operation on the session table, in any order.          *)
(***************************************************************************)
SessionTables ==
    TablesOf(<<"Marks">>, <<"number">>, 1)
      \cup TablesOf(<<"Name", "Marks">>, <<"object", "number">>, 1)

\* A session on a server without a recording device; session_df keeps the
\* table as it was uploaded.
InitSession ==
    /\ df \in SessionTables
    /\ pc = "idle"
    /\ NoCall
    /\ audio_available = FALSE
    /\ listening = FALSE
    /\ command_result = None
    /\ heard = <<>>
    /\ files = [p \in Paths |-> None]
    /\ session_df = [s \in Sessions |-> IF s = "s1" THEN df ELSE None]
    /\ chart_pc = [s \in Sessions |-> "idle"]
    /\ chart_col = [s \in Sessions |-> None]
    /\ returned_path = [s \in Sessions |-> None]
    /\ displayed = [s \in Sessions |-> None]

NextSession ==
    \/ ApplyFilter
    \/ ProcessCommand
    \/ VoiceCommand
    \/ ShowCommandResult
    \/ HighlightLow
    \/ HighlightLowMarks
    \/ HighlightAgain
    \/ Analyze
    \/ Rerun

SpecSession == InitSession /\ [][NextSession]_vars

(***************************************************************************)
(* TextCommandProcessor._apply_filter on its own.                          *)
(***************************************************************************)
\* Column names as the patterns extract them, and as a caller may pass them.
ExtractedNames ==
    {"marks", "Marks", "MARKS", "mark", "total", "Total Marks", "score", "name", "age",
     "grade"}

\* The operators _apply_filter knows, and one it does not.
ApplyFilterOperators == {">", "<", ">=", "<=", "==", "!="}

ApplyFilterValues == {Num(50), Num(30)}

\* TextCommandProcessor()._apply_filter(df, column, operator, value); the
\* arguments are kept as a one-element condition list.
CallApplyFilter ==
    /\ pc = "idle"
    /\ \E column \in ExtractedNames, operator \in ApplyFilterOperators,
          value \in ApplyFilterValues :
          /\ conditions' = <<<<column, operator, value>>>>
          /\ result' = ApplyFilterTo(df, column, operator, value)
    /\ pc' = "done"
    /\ UNCHANGED <<df, logic, filtered, command_text, highlight_threshold, second, report, save_outcome,
                   shown, worldVars>>

NextApplyFilter == CallApplyFilter \/ Rerun

SpecApplyFilter == InitCommand /\ [][NextApplyFilter]_vars

(***************************************************************************)
(* app.py, the sidebar filter: "Apply Filter" with the export.             *)
(***************************************************************************)
MaxSidebarConds == 1

SidebarOperators == {">", "<", "==", "!=", ">=", "<="}
SidebarLogics == {"AND", "OR"}

\* The conditions the sidebar can build for the table d: a column of the
\* table, an operator of the select box, the text parsed to a number or kept.
SidebarConditionLists(d) ==
    SeqsUpTo({d.columns[i] : i \in DOMAIN d.columns} \X SidebarOperators \X FilterValues,
             MaxSidebarConds)

InitExport ==
    /\ df \in FilterTables
    /\ pc = "idle"
    /\ NoCall
    /\ NewWorld

\* app.py lines 34-50, "Apply Filter": the table is filtered and written to
\* the page, saved to filtered_output.xlsx, the success message is shown and
\* the file is opened for the download button; any exception ends in
\* st.error.  write_ok tells whether to_excel can write the file.
SidebarApplyFilter ==
    /\ pc = "idle"
    /\ \E conds \in SidebarConditionLists(df), lg \in SidebarLogics, write_ok \in BOOLEAN :
          LET filtered_df == apply_filter(SmartFilter(df), conds, lg)
          IN /\ conditions' = conds
             /\ logic' = lg
             /\ filtered' = filtered_df
             /\ IF filtered_df.kind = "raise"
                THEN /\ save_outcome' = None
                     /\ shown' = <<Say("error", "Error applying filter")>>
                     /\ UNCHANGED files
                ELSE LET call == save_to_excel(files, filtered_df.value, FilteredOutput,
                                               write_ok)
                     IN /\ save_outcome' = call.outcome
                        /\ files' = call.files
                        /\ shown' =
                              <<Show("table", Content(filtered_df.value)),
                                Say("success", "Filtered file saved as filtered_output.xlsx")>>
                              \o IF call.files[FilteredOutput] = None
                                 THEN <<Say("error", "Error applying filter")>>
                                 ELSE <<Show("download", call.files[FilteredOutput])>>
    /\ pc' = "done"
    /\ UNCHANGED <<df, command_text, result, highlight_threshold, second, report,
                   audio_available, listening, command_result, heard, session_df,
                   chart_pc, chart_col, returned_path, displayed>>

NextExport == SidebarApplyFilter \/ Rerun

SpecExport == InitExport /\ [][NextExport]_vars

(***************************************************************************)
(* app.py, "Create Bar Chart" in two sessions of the one server: each      *)
(* session's script run calls plot_bar_chart and then st.image, and the    *)
(* runs of different sessions interleave between the two.                  *)
(***************************************************************************)
ChartTables == TablesOf(<<"Marks", "Name">>, <<"number", "object">>, 1)

\* What st.image raises when the file is not there.
NoImage == Raised("FileNotFoundError", <<DefaultChartPath>>)

InitChart ==
    /\ df \in ChartTables
    /\ pc = "idle"
    /\ NoCall
    /\ audio_available = FALSE
    /\ listening = FALSE
    /\ command_result = None
    /\ heard = <<>>
    /\ files = [p \in Paths |-> None]
    /\ session_df \in [Sessions -> ChartTables]
    /\ session_df["s1"] = df
    /\ chart_pc = [s \in Sessions |-> "idle"]
    /\ chart_col = [s \in Sessions |-> None]
    /\ returned_path = [s \in Sessions |-> None]
    /\ displayed = [s \in Sessions |-> None]

\* app.py lines 173-175 in session s: the column of the select box, then
\* ae.plot_bar_chart(chart_col) with the default path; what it returns is
\* not looked at.
RenderChart(s) ==
    /\ chart_pc[s] = "idle"
    /\ \E i \in DOMAIN session_df[s].columns, saved \in BOOLEAN :
          LET column == session_df[s].columns[i]
              call == plot_bar_chart(AutomationEngine(session_df[s]), column,
                                     DefaultChartPath, files, saved)
          IN /\ chart_col' = [chart_col EXCEPT ![s] = Str(column)]
             /\ returned_path' = [returned_path EXCEPT ![s] = call.outcome]
             /\ files' = call.files
    /\ chart_pc' = [chart_pc EXCEPT ![s] = "rendered"]
    /\ UNCHANGED <<df, pc, callVars, audio_available, listening, command_result, heard,
                   session_df, displayed>>

\* app.py line 176 in session s: st.image("bar_chart.png") shows what the
\* file holds now.
DisplayChart(s) ==
    /\ chart_pc[s] = "rendered"
    /\ displayed' = [displayed EXCEPT ![s] =
                        IF files[DefaultChartPath] = None THEN NoImage
                        ELSE Show("image", files[DefaultChartPath])]
    /\ chart_pc' = [chart_pc EXCEPT ![s] = "shown"]
    /\ UNCHANGED <<df, pc, callVars, audio_available, listening, command_result, heard,
                   files, session_df, chart_col, returned_path>>

\* Session s's script runs again: the page is drawn anew, the select box
\* keeps its column.
ChartRerun(s) ==
    /\ chart_pc[s] = "shown"
    /\ chart_pc' = [chart_pc EXCEPT ![s] = "idle"]
    /\ returned_path' = [returned_path EXCEPT ![s] = None]
    /\ displayed' = [displayed EXCEPT ![s] = None]
    /\ UNCHANGED <<df, pc, callVars, audio_available, listening, command_result, heard,
                   files, session_df, chart_col>>

NextChart ==
    \E s \in Sessions : RenderChart(s) \/ DisplayChart(s) \/ ChartRerun(s)

SpecChart == InitChart /\ [][NextChart]_vars

(***************************************************************************)
(* text_commands.py: the documented example commands.                      *)
(***************************************************************************)
\* self.command_examples, in the order of __init__
command_examples ==
    <<"filter marks > 80",
      "show students with marks above 70",
      "create chart for marks column",
      "highlight low marks below 40",
      "filter age > 20",
      "show rows where score >= 85">>

\* TextCommandProcessor.get_command_examples()
get_command_examples == command_examples

\* The tables with the numeric columns the examples name.
ExampleTables ==
    TablesOf(<<"marks", "age", "score">>, <<"number", "number", "number">>, MaxCommandRows)

InitExamples ==
    /\ df \in ExampleTables
    /\ pc = "idle"
    /\ NoCall
    /\ NewWorld

\* process_command(example, df) for one of get_command_examples()
ProcessExample ==
    /\ pc = "idle"
    /\ \E i \in DOMAIN get_command_examples :
          /\ command_text' = get_command_examples[i]
          /\ result' = process_command(get_command_examples[i], df)
    /\ pc' = "done"
    /\ UNCHANGED <<df, conditions, logic, filtered, highlight_threshold, second, report,
                   save_outcome, shown, worldVars>>

NextExamples == ProcessExample \/ Rerun

SpecExamples == InitExamples /\ [][NextExamples]_vars

Init == InitFilter \/ InitCommand

Next == ApplyFilter \/ ProcessCommand \/ Rerun

Spec == Init /\ [][Next]_vars

TypeOK == pc \in {"idle", "done"}

(***************************************************************************)
(* Claims about SmartFilter.apply_filter, checked under SpecFilter.        *)
(***************************************************************************)
ColumnsExist(d, conds) == \A i \in DOMAIN conds : HasColumn(d, conds[i][1])
OperatorsSupported(conds) == \A i \in DOMAIN conds : conds[i][2] \in SupportedOperators

\* Every comparison the condition makes on the table is one Python can evaluate.
ConditionComparable(d, cond) ==
    /\ HasColumn(d, cond[1])
    /\ \A r \in DOMAIN d.rows :
          ~Incomparable(d.rows[r].cells[ColumnIndex(d, cond[1])], cond[2], cond[3])

\* `r[column] <op> value` for a row of the table
RowSatisfies(d, row, cond) ==
    CompareCell(row.cells[ColumnIndex(d, cond[1])], cond[2], cond[3])

IsColumnNotFound(outcome, column) ==
    /\ outcome.kind = "raise"
    /\ outcome.exc = "ValueError"
    /\ outcome.message = <<"Column not found in dataframe", column>>

IsUnsupportedOperator(outcome) ==
    /\ outcome.kind = "raise"
    /\ outcome.exc = "ValueError"
    /\ outcome.message[1] = "Unsupported operator"

IsUnsupportedLogic(outcome) ==
    /\ outcome.kind = "raise"
    /\ outcome.exc = "ValueError"
    /\ outcome.message[1] = "Unsupported logic"

FilterCalled == pc = "done" /\ filtered # None

\* C1: for a non-empty condition list whose columns exist and whose operators
\* are supported, apply_filter with logic 'AND' returns a table exactly when it
\* does with logic 'OR' on the same table and conditions, and the rows it
\* returns are then among the rows returned with 'OR'.
C1_AndSubsetOfOr ==
    (/\ FilterCalled
     /\ conditions # <<>>
     /\ logic = "AND"
     /\ ColumnsExist(df, conditions)
     /\ OperatorsSupported(conditions))
    => LET or_result == apply_filter(SmartFilter(df), conditions, "OR")
       IN /\ (filtered.kind = "return") <=> (or_result.kind = "return")
          /\ filtered.kind = "return" =>
                 Range(filtered.value.rows) \subseteq Range(or_result.value.rows)

\* C1 witness: two conditions under 'AND' select some rows, and 'OR' selects more.
C1_Witness ==
    /\ FilterCalled
    /\ Len(conditions) = 2
    /\ logic = "AND"
    /\ filtered.kind = "return"
    /\ filtered.value.rows # <<>>
    /\ LET or_result == apply_filter(SmartFilter(df), conditions, "OR")
       IN /\ or_result.kind = "return"
          /\ Len(or_result.value.rows) > Len(filtered.value.rows)

\* C2: apply_filter with an empty condition list returns the table unchanged
\* (same columns, same rows in the same order) for every value of logic, the
\* unsupported ones included, and raises nothing.
C2_EmptyIsIdentity ==
    (FilterCalled /\ conditions = <<>>)
    => /\ filtered.kind = "return"
       /\ Content(filtered.value) = Content(df)

\* C2 witness: an empty condition list applied to a two-row table with a logic
\* that is neither 'AND' nor 'OR'.
C2_Witness ==
    /\ FilterCalled
    /\ conditions = <<>>
    /\ logic = "XOR"
    /\ Len(df.rows) = 2
    /\ filtered.kind = "return"

\* The position of the first condition that names an absent column.
FirstAbsent(d, conds) ==
    CHOOSE k \in DOMAIN conds :
        /\ ~HasColumn(d, conds[k][1])
        /\ \A j \in 1..(k - 1) : HasColumn(d, conds[j][1])

C4_UnsupportedLogicFails ==
    (/\ FilterCalled
     /\ conditions # <<>>
     /\ \A i \in DOMAIN conditions :
           /\ conditions[i][2] \in SupportedOperators
           /\ ConditionComparable(df, conditions[i])
     /\ logic \notin {"AND", "OR"})
    => IsUnsupportedLogic(filtered)

\* The rows of the table that satisfy the conditions combined by lg, in row order.
RECURSIVE ExpectedRows(_, _, _, _)
ExpectedRows(d, rows, conds, lg) ==
    IF rows = <<>> THEN <<>>
    ELSE LET r == Head(rows)
             keep == IF lg = "AND"
                     THEN \A i \in DOMAIN conds : RowSatisfies(d, r, conds[i])
                     ELSE \E i \in DOMAIN conds : RowSatisfies(d, r, conds[i])
         IN (IF keep THEN <<r>> ELSE <<>>) \o ExpectedRows(d, Tail(rows), conds, lg)

C5_WitnessUnsupported ==
    /\ FilterCalled
    /\ ~OperatorsSupported(conditions)
    /\ IsUnsupportedOperator(filtered)

(***************************************************************************)
(* Claims about TextCommandProcessor, checked under SpecCommand.           *)
(***************************************************************************)
CommandCalled == pc = "done" /\ result # None

\* The text as process_command hands it to its handlers: lowercased and trimmed.
Normalized == Strip(Lower(command_text))

Envelope == result.value

FilterErrors ==
    {"Filter error", "Could not parse filter command", "Column '{}' not found",
     "Operator '{}' not supported", "Filter application error"}
ChartErrors == {"Column not found for chart", "Chart error"}
HighlightErrors == {"Could not parse highlight command", "Highlight error"}
SummaryErrors == {"Summary error"}

IsError(envelope, templates) ==
    envelope.action = "error" /\ envelope.message.template \in templates

\* The rule whose handler produced the envelope: 1 filter, 2 chart,
\* 3 highlight, 4 summary, 5 unknown; 0 when the envelope is none of theirs.
RuleOf(envelope) ==
    IF envelope.action = "filter" \/ IsError(envelope, FilterErrors) THEN 1
    ELSE IF envelope.action = "chart" \/ IsError(envelope, ChartErrors) THEN 2
    ELSE IF envelope.action = "highlight" \/ IsError(envelope, HighlightErrors) THEN 3
    ELSE IF envelope.action = "summary" \/ IsError(envelope, SummaryErrors) THEN 4
    ELSE IF envelope.action = "unknown" THEN 5
    ELSE 0

\* Rule k of the dispatch order matches the normalized text (rule 5 always does).
RuleMatches(k, command) ==
    CASE k = 1 -> ContainsAny(FilterTokens, command)
      [] k = 2 -> ContainsAny(ChartKeywords, command)
      [] k = 3 -> ContainsAny(HighlightKeywords, command)
      [] k = 4 -> ContainsAny(SummaryKeywords, command)
      [] k = 5 -> TRUE

\* C6: process_command answers with the handler of the first rule that matches
\* in the order filter token, chart keyword, highlight keyword, summary
\* keyword, unknown: a text matching rule k is never answered by a later rule,
\* and a text matching none of the four rules gets the 'unknown' envelope with
\* the fixed help message.
C6_FirstMatchWins ==
    CommandCalled =>
        /\ result.kind = "return"
        /\ RuleOf(Envelope) \in 1..5
        /\ RuleMatches(RuleOf(Envelope), Normalized)
        /\ \A k \in 1..4 : RuleMatches(k, Normalized) => RuleOf(Envelope) <= k
        /\ RuleOf(Envelope) = 5 =>
              Envelope.message.template =
                  "Command not recognized. Try: 'filter marks > 80' or 'create chart for marks'"

\* C6 witness: a text with 'above' and 'chart' that names a column of the
\* table is answered by the filter handler with a filter result.
C6_Witness ==
    /\ CommandCalled
    /\ Contains("above", Normalized)
    /\ Contains("chart", Normalized)
    /\ \E i \in DOMAIN df.columns : Contains(Lower(df.columns[i]), Normalized)
    /\ Envelope.action = "filter"

\* C6, second case reached: a text with 'mark' and 'summary' and no filter
\* token or chart keyword is answered by the highlight handler.
C6_WitnessHighlight ==
    /\ CommandCalled
    /\ Contains("mark", Normalized)
    /\ Contains("summary", Normalized)
    /\ RuleOf(Envelope) = 3

\* C6, last case reached: a text matching no rule is answered 'unknown'.
C6_WitnessUnknown ==
    /\ CommandCalled
    /\ command_text = "hello world"
    /\ Envelope.action = "unknown"

Actions == {"filter", "chart", "highlight", "summary", "error", "unknown"}

\* The column _apply_filter resolves a name to: the name itself when it is a
\* column, else the first column containing it case-insensitively; <<>> if none.
Resolved(d, name) ==
    IF HasColumn(d, name) THEN <<name>>
    ELSE First(SelectSeq(d.columns, LAMBDA col : Contains(Lower(name), Lower(col))))

\* C7: process_command always returns an envelope whose action is one of
\* filter, chart, highlight, summary, error, unknown and raises nothing; for a
\* text with '>', a missing token before or after the '>', a non-numeric token
\* after it, a column name no column matches and a column whose values cannot
\* be ordered against the number each yield an 'error' envelope with a message.
C7_NeverRaises ==
    CommandCalled =>
        /\ result.kind = "return"
        /\ Envelope.action \in Actions
        /\ Contains(">", Normalized) =>
              LET parts == SplitOn(Normalized, ">")
                  before == SplitWs(parts[1])
                  after == SplitWs(parts[2])
              IN IF before = <<>> \/ after = <<>>
                 THEN IsError(Envelope, {"Filter error"})
                 ELSE IF ParseFloat(after[1]).kind = "raise"
                 THEN IsError(Envelope, {"Filter error"})
                 ELSE LET col == Resolved(df, before[Len(before)])
                      IN IF col = <<>>
                         THEN IsError(Envelope, {"Column '{}' not found"})
                         ELSE (\E r \in DOMAIN df.rows :
                                  df.rows[r].cells[ColumnIndex(df, col[1])].t = "str"
                                    /\ ParseFloat(after[1]).value.t # "nan")
                              => IsError(Envelope, {"Filter application error"})

\* C7 witness: no token before the '>': the IndexError became an error envelope.
C7_Witness ==
    /\ CommandCalled
    /\ Contains(">", Normalized)
    /\ SplitWs(SplitOn(Normalized, ">")[1]) = <<>>
    /\ Envelope.action = "error"
    /\ Envelope.message = Message("Filter error", <<"IndexError">>)

\* C7, further cases reached: the non-numeric token, and the column of strings.
C7_WitnessValueError ==
    /\ CommandCalled
    /\ Envelope.action = "error"
    /\ Envelope.message = Message("Filter error", <<"ValueError">>)

C7_WitnessTypeError ==
    /\ CommandCalled
    /\ Envelope.action = "error"
    /\ Envelope.message = Message("Filter application error", <<"TypeError">>)

\* The rows of the table whose value in the column is a number above n.
RowsAbove(d, column, n) ==
    SelectSeq(d.rows, LAMBDA r : LET cell == r.cells[ColumnIndex(d, column)]
                                 IN cell.t = "num" /\ cell.n > n)

\* The envelope is the filter result of `column > n` on the table.
IsFilterAbove(envelope, d, column, n) ==
    /\ envelope.action = "filter"
    /\ envelope.message.template = "Filtered {} rows where {} {} {}"
    /\ envelope.message.args = <<Len(RowsAbove(d, column, n)), column, ">", Num(n)>>
    /\ envelope.data.columns = d.columns
    /\ envelope.data.rows = RowsAbove(d, column, n)

\* C8 as stated: "filter marks > 80" against any table with a (numeric) column
\* `Marks`, whatever its other columns and their order, yields the filter
\* result of Marks > 80.0.
C8_AnyTableWithMarks ==
    (/\ CommandCalled
     /\ Normalized = "filter marks > 80"
     /\ HasColumn(df, "Marks")
     /\ df.dtypes[ColumnIndex(df, "Marks")] = "number")
    => /\ result.kind = "return"
       /\ IsFilterAbove(Envelope, df, "Marks", 80)

\* C8 amended: "filter marks > 80" yields the filter result of Marks > 80.0
\* (exactly the rows with Marks > 80) for every table in which `Marks` is a
\* numeric column, no column is named exactly 'marks', and `Marks` is the
\* first column in column order whose name contains 'marks' case-insensitively.
C8_FilterMarks ==
    (/\ CommandCalled
     /\ Normalized = "filter marks > 80"
     /\ HasColumn(df, "Marks")
     /\ df.dtypes[ColumnIndex(df, "Marks")] = "number"
     /\ ~HasColumn(df, "marks")
     /\ \A j \in 1..(ColumnIndex(df, "Marks") - 1) :
           ~Contains("marks", Lower(df.columns[j])))
    => /\ result.kind = "return"
       /\ IsFilterAbove(Envelope, df, "Marks", 80)

\* C8 witness: `Marks` is the second column, after `Name`, and its row above
\* 80 is the row returned.
C8_Witness ==
    /\ CommandCalled
    /\ command_text = "filter marks > 80"
    /\ df.columns = <<"Name", "Marks">>
    /\ df.rows # <<>>
    /\ IsFilterAbove(Envelope, df, "Marks", 80)
    /\ Envelope.data.rows = df.rows

\* The first numeric column, in column order, whose name contains 'mark' or
\* 'score' case-insensitively, as a one-element sequence; <<>> when none.
FirstNumericMarkColumn(d) ==
    LET hits == {i \in DOMAIN d.columns :
                    /\ d.dtypes[i] = "number"
                    /\ \/ Contains("mark", Lower(d.columns[i]))
                       \/ Contains("score", Lower(d.columns[i]))}
    IN IF hits = {} THEN <<>> ELSE <<d.columns[Min(hits)]>>

\* C9: a text without '>' in which 'above ' is followed by a number N (such as
\* "show students above N") yields the filter result of `column > N` on the
\* first numeric column, in column order, whose name contains 'mark' or
\* 'score' case-insensitively; when the table has no such column no filter is
\* produced and the result is an error envelope.
C9_AboveTargetsFirstMarkColumn ==
    (/\ CommandCalled
     /\ ~Contains(">", Normalized)
     /\ SearchAbove(Normalized).matched)
    => /\ result.kind = "return"
       /\ LET n == DigitsToInt(SearchAbove(Normalized).groups[1])
              target == FirstNumericMarkColumn(df)
          IN IF target # <<>>
             THEN IsFilterAbove(Envelope, df, target[1], n)
             ELSE IsError(Envelope, {"Could not parse filter command"})

\* C9 witness: "show students above 80" against a table whose first column
\* `Remarks` holds text selects the numeric column `Score`.
C9_Witness ==
    /\ CommandCalled
    /\ command_text = "show students above 80"
    /\ df.columns = <<"Remarks", "Score">>
    /\ df.rows # <<>>
    /\ IsFilterAbove(Envelope, df, "Score", 80)
    /\ Envelope.data.rows = df.rows

\* C9, error case reached: no numeric column named after marks or scores.
C9_WitnessNoTarget ==
    /\ CommandCalled
    /\ command_text = "show students above 80"
    /\ FirstNumericMarkColumn(df) = <<>>
    /\ df.columns # <<>>
    /\ IsError(Envelope, {"Could not parse filter command"})

\* The text is handled by the chart rule.
ChartRuleApplies(command) ==
    ~ContainsAny(FilterTokens, command) /\ ContainsAny(ChartKeywords, command)

\* C10: for a text handled by the chart rule, the chart envelope names the
\* first column in column order whose lowercased name is a substring of the
\* text (lowercased and trimmed, as the handler receives it) and carries the
\* source table itself; when no column name occurs in the text the result is
\* the error envelope 'Column not found for chart'.
C10_ChartFirstColumn ==
    (CommandCalled /\ ChartRuleApplies(Normalized))
    => /\ result.kind = "return"
       /\ LET hits == {i \in DOMAIN df.columns : Contains(Lower(df.columns[i]), Normalized)}
          IN IF hits # {}
             THEN /\ Envelope.action = "chart"
                  /\ Envelope.column = df.columns[Min(hits)]
                  /\ Envelope.data = df
             ELSE /\ Envelope.action = "error"
                  /\ Envelope.message = Message("Column not found for chart", <<>>)

\* C10 witness: "create chart for marks" names the column `Marks`, the second
\* of two columns whose names occur in the text.
C10_Witness ==
    /\ CommandCalled
    /\ command_text = "create chart for marks"
    /\ df.columns = <<"Total Marks", "Marks">>
    /\ Envelope.action = "chart"
    /\ Envelope.column = "Marks"
    /\ Envelope.data = df

\* C10, error case reached: the text names no column of the table.
C10_WitnessNoColumn ==
    /\ CommandCalled
    /\ ChartRuleApplies(Normalized)
    /\ df.columns # <<>>
    /\ Envelope.action = "error"
    /\ Envelope.message = Message("Column not found for chart", <<>>)

(***************************************************************************)
(* Claims about the highlight command, checked under SpecCommand.          *)
(***************************************************************************)
\* The text asks for a highlight with a threshold: it holds 'highlight', the
\* phrase 'low marks' or 'below', and the pattern of the highlight handler
\* finds a number.
AsksHighlightBelow(command) ==
    /\ Contains("highlight", command)
    /\ Contains("low marks", command) \/ Contains("below", command)
    /\ SearchBelow(command).matched

\* C11: a highlight command with 'low marks' or 'below' followed by a number
\* N, such as "highlight low marks below 40", is answered by process_command
\* with action 'highlight' for the threshold N, and a highlight command
\* without any number is answered with an error envelope.
C11_HighlightWithThreshold ==
    CommandCalled /\ Contains("highlight", Normalized) =>
        /\ AsksHighlightBelow(Normalized) =>
              /\ result.kind = "return"
              /\ Envelope.action = "highlight"
              /\ Envelope.message.args[Len(Envelope.message.args)] =
                     ParseFloat(SearchBelow(Normalized).groups[1]).value
        /\ (\A i \in 1..Len(Normalized) : Char(Normalized, i) \notin Digits) =>
              /\ result.kind = "return"
              /\ Envelope.action = "error"

(***************************************************************************)
(* Claims about the highlight operations, checked under SpecHighlight.     *)
(***************************************************************************)
\* _highlight_low_values was called on the session table.
HighlightLowCalled == pc = "done" /\ result # None /\ IsEnvelope(result)

\* highlight_low_marks was called on the session table and returned a table.
HighlightLowMarksCalled == pc = "done" /\ result # None /\ IsTable(result)

\* The row has a number below n in a numeric column named like a mark or score.
IsLowRow(d, row, n) ==
    \E j \in DOMAIN d.columns :
        /\ d.dtypes[j] = "number"
        /\ IsMarkColumn(d.columns[j])
        /\ row.cells[j].t = "num"
        /\ row.cells[j].n < n

\* The rows of the table that are low in at least one such column.
LowRowSet(d, n) == {row \in Range(d.rows) : IsLowRow(d, row, n)}

\* C12: _highlight_low_values(table, threshold) returns action 'highlight';
\* its data holds rows of the table only, each with a value below the
\* threshold in some numeric column named like 'mark' or 'score'; every such
\* row of the table is in the data (rows equal in every cell count as
\* duplicates of each other and the first is kept); no row is in the data
\* twice, also when it is low in several columns; and when no row is low
\* the action is still 'highlight' and the data has no rows.
C12_UnionOfLowRows ==
    HighlightLowCalled =>
        LET data == Envelope.data
            low == LowRowSet(df, highlight_threshold.n)
        IN /\ Envelope.action = "highlight"
           /\ Range(data.rows) \subseteq low
           /\ {row.cells : row \in Range(data.rows)} = {row.cells : row \in low}
           /\ \A i, j \in DOMAIN data.rows :
                  data.rows[i].cells = data.rows[j].cells => i = j
           /\ \A row \in Range(data.rows) :
                  \A other \in low : other.cells = row.cells => row.idx <= other.idx
           /\ low = {} => data.rows = <<>>

\* C12 witness: a row below the threshold in both mark columns is in the data
\* once, next to a row that is low in the second column only.
C12_Witness ==
    /\ HighlightLowCalled
    /\ df.columns = <<"Marks", "Score">>
    /\ Len(df.rows) = 2
    /\ df.rows[1].cells = <<Num(30), Num(30)>>
    /\ df.rows[2].cells = <<Num(90), Num(30)>>
    /\ highlight_threshold = Num(40)
    /\ Envelope.action = "highlight"
    /\ Envelope.data.rows = df.rows

\* C12, empty case reached: no value is below the threshold and the answer is
\* a 'highlight' envelope with an empty table.
C12_WitnessEmpty ==
    /\ HighlightLowCalled
    /\ df.columns = <<"Marks", "Score">>
    /\ Len(df.rows) = 2
    /\ LowRowSet(df, highlight_threshold.n) = {}
    /\ Envelope.action = "highlight"
    /\ Envelope.data = EmptyDataFrame

\* The highlight was applied to the session table and then, with the same
\* threshold, to the table it returned.
HighlightedTwice == pc = "done" /\ result # None /\ second # None

\* C13: highlight applied with the same threshold to its own result returns
\* the rows of that result again, for _highlight_low_values (the envelope's
\* data) and for highlight_low_marks (the returned table).  Each call is a
\* function of the table and the threshold and leaves the table as it was,
\* so a repeated call on the same table repeats the result.
C13_HighlightIdempotent ==
    HighlightedTwice =>
        /\ second.kind = "return"
        /\ IsEnvelope(result) =>
              /\ second.value.action = "highlight"
              /\ Range(second.value.data.rows) = Range(result.value.data.rows)
        /\ IsTable(result) =>
              Range(second.value.rows) = Range(result.value.rows)

\* C13 witness: highlight_low_marks, finding no column named like marks,
\* takes the numeric columns with all values between 0 and 100; applied to
\* its non-empty result it takes more columns and returns the same rows.
C13_Witness ==
    /\ HighlightedTwice
    /\ IsTable(result)
    /\ result.value.rows # <<>>
    /\ Len(result.value.rows) < Len(df.rows)
    /\ MarksColumns(result.value) # MarksColumns(df)
    /\ second.value.rows = result.value.rows

\* C13, the text processor's case reached: _highlight_low_values applied to
\* its non-empty result, which left a row of the table out.
C13_WitnessEnvelope ==
    /\ HighlightedTwice
    /\ IsEnvelope(result)
    /\ result.value.data.rows # <<>>
    /\ Len(result.value.data.rows) < Len(df.rows)
    /\ second.value.data.rows = result.value.data.rows

Analyzed == pc = "done" /\ report # None

\* C15 as stated: for every numeric column the insight report's rule
\* (1.5 x IQR) flags at most as many rows as the error report's rule
\* (3 x IQR).
C15_InsightFlagsFewer ==
    Analyzed =>
        \A i \in DOMAIN report.insights :
            report.insights[i].outliers <= report.inconsistencies[i].extreme_outliers

\* C15 as amended: for every numeric column the error report's rule
\* (3 x IQR) flags at most as many rows as the insight report's rule
\* (1.5 x IQR), computed for the same column of the same table.
C15_ExtremeFlagsFewer ==
    Analyzed =>
        /\ DOMAIN report.insights = DOMAIN report.inconsistencies
        /\ \A i \in DOMAIN report.insights :
              /\ report.insights[i].column = report.inconsistencies[i].column
              /\ report.inconsistencies[i].extreme_outliers <= report.insights[i].outliers

\* C15 witness: a column in which the insight rule flags a row and the error
\* rule flags none, the quartiles being different.
C15_Witness ==
    /\ Analyzed
    /\ Len(report.insights) = 1
    /\ report.insights[1].outliers = 1
    /\ report.inconsistencies[1].extreme_outliers = 0

\* C15, both rules flagging: a value far from a column of equal values is an
\* outlier for both reports.
C15_WitnessBoth ==
    /\ Analyzed
    /\ Len(report.insights) = 1
    /\ report.insights[1].outliers = 1
    /\ report.inconsistencies[1].extreme_outliers = 1

(***************************************************************************)
(* Claims about the session table, checked under SpecSession.              *)
(***************************************************************************)
\* The tables the operations of the last script run yielded: what
\* apply_filter returned, the data of a filter, chart or highlight envelope,
\* what highlight_low_marks returned, and the same of a repeated highlight.
TablesIn(outcome) ==
    IF outcome = None THEN {}
    ELSE IF outcome.kind # "return" THEN {}
    ELSE IF "rows" \in DOMAIN outcome.value THEN {outcome.value}
    ELSE IF "data" \in DOMAIN outcome.value /\ "rows" \in DOMAIN outcome.value.data
    THEN {outcome.value.data}
    ELSE {}

Yielded == TablesIn(filtered) \cup TablesIn(result) \cup TablesIn(second)

\* The session table is as it was uploaded.
SessionTableKept == df = session_df["s1"]

\* C16 as stated: the session table stays as uploaded, and every table an
\* operation yields is a new derived table: not the session table itself and
\* not the filter's internal copy.
C16_NeverAliased ==
    /\ SessionTableKept
    /\ \A t \in Yielded : t.obj = "derived"

\* C16 as amended: the session table stays as uploaded, and every table an
\* operation yields is a new derived table, with two exceptions: apply_filter
\* with an empty condition list returns the filter's internal copy itself
\* (a copy of the session table, not the session table), and the data of a
\* chart envelope is the very table process_command was given.
C16_AliasedOnlyWhenUnfiltered ==
    /\ SessionTableKept
    /\ \A t \in TablesIn(filtered) :
          IF conditions = <<>>
          THEN t.obj = "SmartFilter.df" /\ Content(t) = Content(df)
          ELSE t.obj = "derived"
    /\ \A t \in TablesIn(result) :
          IF IsEnvelope(result) /\ result.value.action = "chart"
          THEN t = df
          ELSE t.obj = "derived"
    /\ \A t \in TablesIn(second) : t.obj = "derived"

\* C16 witness: apply_filter with an empty condition list returned the
\* filter's own copy of the session table.
C16_Witness ==
    /\ pc = "done"
    /\ conditions = <<>>
    /\ TablesIn(filtered) # {}
    /\ filtered.value.obj = "SmartFilter.df"
    /\ filtered.value.rows = df.rows
    /\ df.rows # <<>>

\* C16, the chart envelope reached: its data is the session table itself.
C16_WitnessChart ==
    /\ CommandCalled
    /\ Envelope.action = "chart"
    /\ Envelope.data = df
    /\ df.obj = "session"

\* C16, a derived table reached: a filter with a condition returned a new
\* table holding a part of the session table's rows.
C16_WitnessDerived ==
    /\ pc = "done"
    /\ conditions # <<>>
    /\ TablesIn(filtered) # {}
    /\ filtered.value.obj = "derived"
    /\ Len(filtered.value.rows) < Len(df.rows)

(***************************************************************************)
(* Claims about the filter patterns, checked under SpecCommand.            *)
(***************************************************************************)
\* The '>' pattern or the 'above' pattern is the one the text selects, and it
\* yields nothing: the tokens around '>' are missing or no number, or
\* 'above' is not followed by a blank and a number.
EarlierPatternFails(command, d) ==
    \/ Contains(">", command) /\ FilterByGreaterSign(command, d).kind = "raise"
    \/ ~Contains(">", command) /\ Contains("above", command)
          /\ ~SearchAbove(command).matched

\* The envelope is a filter with operator > on the column the word resolves
\* to, for the number given.
IsFilterGreater(envelope, d, word, digits) ==
    /\ envelope.action = "filter"
    /\ Resolved(d, word) # <<>>
    /\ envelope.message.args[2] = Resolved(d, word)[1]
    /\ envelope.message.args[3] = ">"
    /\ envelope.message.args[4] = Num(DigitsToInt(digits))

\* C17 as stated: when the '>' or 'above' pattern is selected and fails and
\* the text holds '<word> greater than <number>' for a word naming a numeric
\* column, the 'greater than' pattern is applied and the answer is a filter
\* on that column with operator >.
C17_LaterPatternApplied ==
    CommandCalled =>
        LET match == SearchGreaterThan(Normalized)
        IN /\ EarlierPatternFails(Normalized, df)
           /\ match.matched
           /\ Resolved(df, match.groups[1]) # <<>>
           /\ Resolved(df, match.groups[1]) \in {<<c>> : c \in Range(NumericColumns(df))}
           => IsFilterGreater(Envelope, df, match.groups[1], match.groups[2])

\* C17 as amended: the pattern is selected by keyword, '>' before 'above'
\* before 'greater than', and only the selected pattern is tried.  When the
\* '>' or 'above' pattern is selected and fails, the answer is an error
\* envelope ('Filter error' or 'Could not parse filter command') also for a
\* text that holds '<word> greater than <number>'; the 'greater than'
\* pattern is applied, giving a filter with operator > on the column the
\* word resolves to, only to texts with neither '>' nor 'above'.
C17_FirstKeywordDecides ==
    CommandCalled /\ RuleMatches(1, Normalized) =>
        LET match == SearchGreaterThan(Normalized)
        IN /\ EarlierPatternFails(Normalized, df) =>
                  IsError(Envelope, {"Filter error", "Could not parse filter command"})
           /\ /\ match.matched
              /\ Envelope.action = "filter"
              /\ ~Contains(">", Normalized)
              /\ ~Contains("above", Normalized)
              => IsFilterGreater(Envelope, df, match.groups[1], match.groups[2])
           /\ /\ match.matched
              /\ ~Contains(">", Normalized)
              /\ ~Contains("above", Normalized)
              /\ Resolved(df, match.groups[1]) \in
                     {<<c>> : c \in Range(NumericColumns(df))}
              => Envelope.action = "filter"

\* C17 witness: 'above' without a number before 'marks greater than 80',
\* against a table with the numeric column Marks, is answered with the parse
\* error and no filter.
C17_Witness ==
    /\ CommandCalled
    /\ command_text = "above marks greater than 80"
    /\ df.columns = <<"Marks">>
    /\ df.dtypes = <<"number">>
    /\ IsError(Envelope, {"Could not parse filter command"})

\* C17, the third pattern applied: a text with neither '>' nor 'above' is
\* filtered by its '<word> greater than <number>'.
C17_WitnessGreaterThan ==
    /\ CommandCalled
    /\ command_text = "marks greater than 80"
    /\ df.columns = <<"Marks">>
    /\ df.dtypes = <<"number">>
    /\ IsFilterGreater(Envelope, df, "marks", "80")

(***************************************************************************)
(* Claims about _apply_filter, checked under SpecApplyFilter.              *)
(***************************************************************************)
ApplyFilterCalled == pc = "done" /\ result # None /\ Len(conditions) = 1

\* The positions of the columns whose lowercased name contains the
\* lowercased name.
SimilarPositions(d, name) ==
    {i \in DOMAIN d.columns : Contains(Lower(name), Lower(d.columns[i]))}

\* C18: _apply_filter uses the column of exactly the given name when there is
\* one; otherwise the first column, in column order, whose name contains the
\* name case-insensitively; and when there is none it returns the error
\* envelope "Column '<name>' not found" without any data.  On the column
\* used, the answer is the filter of exactly the rows satisfying the
\* comparison, or the error for an operator outside > < >= <= == or for a
\* column that cannot be ordered against the value.
C18_ExactThenFirstSimilar ==
    ApplyFilterCalled =>
        LET column == conditions[1][1]
            operator == conditions[1][2]
            value == conditions[1][3]
            similar == SimilarPositions(df, column)
        IN /\ result.kind = "return"
           /\ IF ~HasColumn(df, column) /\ similar = {}
              THEN Envelope = ErrorEnvelope("Column '{}' not found", <<column>>)
              ELSE LET target == IF HasColumn(df, column) THEN column
                                 ELSE df.columns[Min(similar)]
                       cond == <<target, operator, value>>
                   IN IF operator \notin {">", "<", ">=", "<=", "=="}
                      THEN IsError(Envelope, {"Operator '{}' not supported"})
                      ELSE IF ~ConditionComparable(df, cond)
                      THEN IsError(Envelope, {"Filter application error"})
                      ELSE /\ Envelope.action = "filter"
                           /\ Envelope.message.args[2] = target
                           /\ Envelope.data.rows =
                                  SelectSeq(df.rows, LAMBDA row : RowSatisfies(df, row, cond))

\* C18 witness: with the columns Total Marks, Marks and the name 'marks' the
\* filter is made on Total Marks, whose values differ from those of Marks.
C18_Witness ==
    /\ ApplyFilterCalled
    /\ df.columns = <<"Total Marks", "Marks">>
    /\ conditions[1] = <<"marks", ">", Num(50)>>
    /\ Len(df.rows) = 1
    /\ df.rows[1].cells = <<Num(90), Num(30)>>
    /\ Envelope.action = "filter"
    /\ Envelope.message.args[2] = "Total Marks"
    /\ Envelope.data.rows = df.rows

\* C18, the exact name reached: with the columns Total Marks, Marks and the
\* name 'Marks' the filter is made on Marks.
C18_WitnessExact ==
    /\ ApplyFilterCalled
    /\ df.columns = <<"Total Marks", "Marks">>
    /\ conditions[1] = <<"Marks", ">", Num(50)>>
    /\ Len(df.rows) = 1
    /\ df.rows[1].cells = <<Num(90), Num(30)>>
    /\ Envelope.action = "filter"
    /\ Envelope.message.args[2] = "Marks"
    /\ Envelope.data.rows = <<>>

\* C18, no column reached: the name is in no column's name and the answer is
\* the error envelope.
C18_WitnessNotFound ==
    /\ ApplyFilterCalled
    /\ df.columns = <<"Total Marks", "Marks">>
    /\ conditions[1][1] = "grade"
    /\ Envelope = ErrorEnvelope("Column '{}' not found", <<"grade">>)

(***************************************************************************)
(* Claims about the export, checked under SpecExport.                      *)
(***************************************************************************)
ExportTried == pc = "done" /\ save_outcome # None

SavedMessage == Say("success", "Filtered file saved as filtered_output.xlsx")

IsShown(entry) == \E i \in DOMAIN shown : shown[i] = entry

\* C19: a write failure makes save_to_excel raise IOError and the filtered
\* table stays as it was; and the sidebar shows 'Filtered file saved' only
\* when save_to_excel wrote the filtered table to the file.
C19_ExportFailureReported ==
    ExportTried =>
        /\ save_outcome.kind = "return" => save_outcome.value = Bool(TRUE)
        /\ save_outcome.kind = "raise" => save_outcome.exc = "IOError"
        /\ filtered = apply_filter(SmartFilter(df), conditions, logic)
        /\ IsShown(SavedMessage) =>
              /\ save_outcome = Returned(Bool(TRUE))
              /\ files[FilteredOutput] = ToExcel(filtered.value)

\* C19, the export going through: the file holds the filtered table and the
\* success message is shown.
C19_WitnessWritten ==
    /\ ExportTried
    /\ save_outcome = Returned(Bool(TRUE))
    /\ Len(filtered.value.rows) = 1
    /\ files[FilteredOutput] = ToExcel(filtered.value)
    /\ IsShown(SavedMessage)

\* C19, the failure: the write failed, the file of an earlier export is
\* still there, and the success message and the download are shown.
C19_WitnessStale ==
    /\ ExportTried
    /\ save_outcome = Returned(Bool(FALSE))
    /\ files[FilteredOutput] # None
    /\ files[FilteredOutput] # ToExcel(filtered.value)
    /\ IsShown(SavedMessage)
    /\ IsShown(Show("download", files[FilteredOutput]))

(***************************************************************************)
(* Claims about the shared chart file, checked under SpecChart.            *)
(***************************************************************************)
\* The chart session s asked for.
OwnChart(s) == Show("image", BarChart(AutomationEngine(session_df[s]), chart_col[s].s))

\* The charts session t can render: one per column of its table.
ChartsOf(t) ==
    {Show("image", BarChart(AutomationEngine(session_df[t]), session_df[t].columns[i])) :
        i \in DOMAIN session_df[t].columns}

RenderedAndShown(s) ==
    chart_pc[s] = "shown" /\ returned_path[s] = Returned(Str(DefaultChartPath))

\* C20: a session whose plot_bar_chart wrote bar_chart.png and which then
\* displays bar_chart.png shows its own chart or a chart another session
\* rendered from that session's table in between; the second case happens
\* (C20_Witness), with a chart different from the one asked for.
C20_ShowsOwnOrOthersChart ==
    \A s \in Sessions :
        RenderedAndShown(s) =>
            \/ displayed[s] = OwnChart(s)
            \/ \E t \in Sessions \ {s} :
                  /\ chart_col[t] # None
                  /\ displayed[s] \in ChartsOf(t)

\* C20 witness: both sessions rendered successfully, for different tables
\* or columns, and session s1 displays the chart of session s2.
C20_Witness ==
    /\ RenderedAndShown("s1")
    /\ returned_path["s2"] = Returned(Str(DefaultChartPath))
    /\ OwnChart("s1") # OwnChart("s2")
    /\ displayed["s1"] = OwnChart("s2")
    /\ \/ session_df["s1"] # session_df["s2"]
       \/ chart_col["s1"] # chart_col["s2"]

\* C20, without a race: the session displays the chart it rendered.
C20_WitnessOwn ==
    /\ RenderedAndShown("s1")
    /\ chart_pc["s2"] = "rendered"
    /\ displayed["s1"] = OwnChart("s1")
    /\ OwnChart("s1") # OwnChart("s2")

(***************************************************************************)
(* Claims about the voice command flow, checked under SpecVoice.           *)
(***************************************************************************)
VoiceActions == {"filter", "chart", "unknown"}

\* C21: after every handling of "Start Voice Command" the listening flag is
\* False, whether a text was recognized or no speech was detected, so the
\* button is enabled again; and command_result is None unless the handling
\* last finished recognized a non-empty text, in which case it holds that
\* text and the action made of it, never the result of an earlier handling.
C21_ListeningClearedResultFresh ==
    /\ ~listening
    /\ heard = <<>> => command_result = None
    /\ heard # <<>> =>
          LET text == heard[Len(heard)]
          IN IF text = "" THEN command_result = None
             ELSE /\ command_result # None
                  /\ command_result.text = text
                  /\ command_result.action.action \in VoiceActions

\* C21 witness: a handling that recognized a command is followed by one that
\* detected no speech; the flag is False and the earlier result is gone.
C21_Witness ==
    /\ pc = "done"
    /\ Len(heard) = 2
    /\ heard[1] = "Create bar chart for marks"
    /\ heard[2] = ""
    /\ command_result = None
    /\ ~listening
    /\ shown = <<Say("warning", "No speech detected. Please try again.")>>

\* C21, a text recognized: the result holds the text and its action, and the
\* flag is False.
C21_WitnessRecognized ==
    /\ pc = "done"
    /\ Len(heard) = 2
    /\ heard[1] = ""
    /\ heard[2] = "Filter where age greater than 20"
    /\ command_result # None
    /\ command_result.text = heard[2]
    /\ command_result.action.action = "filter"
    /\ ~listening

(***************************************************************************)
(* Claims about the example commands, checked under SpecExamples.          *)
(***************************************************************************)
\* The kind of envelope each example names, in the order of the examples.
ExampleKinds == <<"filter", "filter", "chart", "highlight", "filter", "filter">>

ExampleIndex == CHOOSE i \in DOMAIN command_examples : command_examples[i] = command_text

\* C22: each of the six example commands, processed against a table with
\* the numeric columns marks, age and score, returns an envelope of the kind
\* the example names and not an error; the last one, "show rows where score
\* >= 85", is a filter with operator >= and value 85.
C22_ExamplesWork ==
    CommandCalled =>
        /\ result.kind = "return"
        /\ Envelope.action = ExampleKinds[ExampleIndex]
        /\ ExampleIndex = 6 =>
              /\ Envelope.message.args[3] = ">="
              /\ Envelope.message.args[4] = Num(85)

\* C22, an example that works: "filter age > 20" returns the rows with age
\* above 20.
C22_WitnessFilter ==
    /\ CommandCalled
    /\ command_text = "filter age > 20"
    /\ Len(df.rows) = 1
    /\ df.rows[1].cells = <<Num(30), Num(30), Num(90)>>
    /\ Envelope.action = "filter"
    /\ Envelope.message.args = <<1, "age", ">", Num(20)>>
    /\ Envelope.data.rows = df.rows

\* C22, the highlight example: it is answered with the filter handler's
\* parse error.
C22_WitnessHighlight ==
    /\ CommandCalled
    /\ command_text = "highlight low marks below 40"
    /\ IsError(Envelope, {"Could not parse filter command"})

\* C22, the >= example: the token after '>' is '=', no number, and the
\* answer is the filter handler's 'Filter error'.
C22_WitnessGreaterEqual ==
    /\ CommandCalled
    /\ command_text = "show rows where score >= 85"
    /\ IsError(Envelope, {"Filter error"})

(***************************************************************************)
(* Claims about the operators of text filters, checked under SpecCommand.  *)
(***************************************************************************)
\* The text triggers rule 1 by one of the tokens no pattern reads, and has
\* none of the three words the patterns are selected by.
OnlyUnreadTokens(command) ==
    /\ ContainsAny({"<", "<=", "==", "below", "less"}, command)
    /\ ~Contains(">", command)
    /\ ~Contains("above", command)
    /\ ~Contains("greater than", command)

\* The first '>' of the text is directly followed by '='.
FirstGreaterIsGreaterEqual(command) ==
    LET p == Find(">", command)
    IN p > 0 /\ p < Len(command) /\ Char(command, p + 1) = "="

C23_WitnessGreaterEqual ==
    /\ CommandCalled
    /\ command_text = "marks >= 80"
    /\ df.columns = <<"Marks">>
    /\ df.dtypes = <<"number">>
    /\ IsError(Envelope, {"Filter error"})

\* C23, a token no pattern reads: "marks < 80" against a table with the
\* numeric column Marks is answered with the parse error.
C23_WitnessLess ==
    /\ CommandCalled
    /\ command_text = "marks < 80"
    /\ df.columns = <<"Marks">>
    /\ df.dtypes = <<"number">>
    /\ IsError(Envelope, {"Could not parse filter command"})

====
